---- MODULE Spec2Model ----
(***************************************************************************)
(* The block-sealing worker of core/worker.go as a state machine: the      *)
(* resubmit loop (newWorkLoop), the main loop (mainLoop) with its          *)
(* commitWork rounds, the seal dispatcher (taskLoop), the public           *)
(* controller calls, and the collaborators they consume (chain head,       *)
(* side blocks, transaction pool, consensus engine).                       *)
(*                                                                         *)
(* Durations are in milliseconds; gas is in units of one base transaction  *)
(* (params.TxGas); the hash of the canonical block at height n is n, the   *)
(* hash of a side block is a number above SideHashBase.                    *)
(***************************************************************************)
EXTENDS Integers, Sequences, FiniteSets, TLC

\* ------------------------------------------------------------ constants
resubmitAdjustChanSize == 10
staleThreshold == 7
minRecommitInterval == 1000
maxRecommitInterval == 15000
intervalAdjustRatioDen == 10
intervalAdjustBias == 200
commitInterruptNone == 0
commitInterruptNewHead == 1
commitInterruptResubmit == 2
ancestorDepth == 7
maxUncles == 2
TxGas == 1
minRatioDen == 10

\* ------------------------------------------------------------ bounds
MaxEvents == 3
MaxRoundEvents == 3
MaxUncleEvents == 4
MaxLongEvents == 9
MaxIntervalEvents == 3
MaxCallEvents == 3
MaxFloodEvents == 7
MaxEmptyEvents == 2
MaxGetEvents == 3
MaxRaceEvents == 3
MaxFaultEvents == 3
MaxPendEvents == 3
MaxSideEvents == 4
MaxUncleCalls == 2
MaxConfigEvents == 3
MaxDecreaseEvents == 45
BlockGasLimit == 3
SideHashBase == 100
MaxGot == 2

Senders == {"A", "B"}

Min(a, b) == IF a < b THEN a ELSE b
Max(a, b) == IF a > b THEN a ELSE b

\* ------------------------------------------------------------ transactions
\* A pending transaction of the pool.
Tx(from, nonce, gas, kind) == [from |-> from, nonce |-> nonce, gas |-> gas, kind |-> kind]

\* The effective tip that orders the senders' heads (A pays more than B).
Price(tx) == IF tx.from = "A" THEN 2 ELSE 1

EmptyTxs == [s \in Senders |-> <<>>]

\* types.TransactionsByPriceAndNonce: the remaining transactions of each
\* sender; the head of the iterator is the best-priced first transaction.
NonEmptySenders(txs) == {s \in Senders : Len(txs[s]) > 0}

PeekSender(txs) ==
    CHOOSE s \in NonEmptySenders(txs) :
        \A t \in NonEmptySenders(txs) :
            \/ Price(Head(txs[s])) > Price(Head(txs[t]))
            \/ Price(Head(txs[s])) = Price(Head(txs[t])) /\ (s = t \/ s = "A")

Peek(txs) == Head(txs[PeekSender(txs)])

\* Shift: replace the head by the same sender's next transaction.
Shift(txs) == [txs EXCEPT ![PeekSender(txs)] = Tail(@)]

\* Pop: drop the head and with it the sender's whole remaining bucket.
Pop(txs) == [txs EXCEPT ![PeekSender(txs)] = <<>>]

\* ------------------------------------------------------------ environment
NoGasPool == 0 - 1

\* The nil *environment.
NilEnv ==
    [id |-> 0, parentHash |-> 0, number |-> 0, ancestors |-> {}, family |-> {},
     uncles |-> {}, txs |-> <<>>, receipts |-> <<>>, tcount |-> 0,
     gasPool |-> NoGasPool, gasLimit |-> 0, state |-> [s \in Senders |-> 0]]

\* environment.copy: every field is carried over (state, receipts, header and
\* the sets are deep copies, which a value model gives for free).
copy(env) == env

\* The uncle hashes of an environment.
UncleHashes(env) == {u.hash : u \in env.uncles}

\* hc.GetBlocksFromHash(parent.Hash(), 7): the parent and its ancestors.
GetBlocksFromHash(hash, n) == {b \in 0..hash : b + n > hash}

\* worker.makeEnv: ancestors are the 7 most recent blocks, family is those
\* blocks and the uncles they include; the accumulators start empty and the
\* gas pool is left unset. (included: set of <<block, uncle hash>>.)
makeEnv(id, parent, gasLimit, st, included) ==
    LET anc == GetBlocksFromHash(parent, ancestorDepth) IN
    [id |-> id, parentHash |-> parent, number |-> parent + 1,
     ancestors |-> anc,
     family |-> anc \cup {p[2] : p \in {q \in included : q[1] \in anc}},
     uncles |-> {}, txs |-> <<>>, receipts |-> <<>>, tcount |-> 0,
     gasPool |-> NoGasPool, gasLimit |-> gasLimit, state |-> st]

\* commitUncle's checks with the family test moved in front of the others.
commitUncleErrFamilyFirst(env, uncle) ==
    IF uncle.hash \in env.family THEN "uncle already included"
    ELSE IF uncle.hash \in UncleHashes(env) THEN "uncle not unique"
    ELSE IF env.parentHash = uncle.parent THEN "uncle is sibling"
    ELSE IF uncle.parent \notin env.ancestors THEN "uncle's parent unknown"
    ELSE "ok"

\* worker.commitUncle: the four admission rules, in the order of the code.
commitUncleErr(env, uncle) ==
    IF uncle.hash \in UncleHashes(env) THEN "uncle not unique"
    ELSE IF env.parentHash = uncle.parent THEN "uncle is sibling"
    ELSE IF uncle.parent \notin env.ancestors THEN "uncle's parent unknown"
    ELSE IF uncle.hash \in env.family THEN "uncle already included"
    ELSE "ok"

commitUncleNoSibling(env, uncle) ==
    IF commitUncleErr(env, uncle) \in {"ok", "uncle is sibling"}
    THEN [env EXCEPT !.uncles = @ \cup {uncle}]
    ELSE env

commitUncle(env, uncle) ==
    IF commitUncleErr(env, uncle) = "ok"
    THEN [env EXCEPT !.uncles = @ \cup {uncle}]
    ELSE env

\* The uncle headers of a pool, in one of the orders a Go map range can give.
RECURSIVE commitUnclesSeq(_, _)
commitUnclesSeq(env, blocks) ==
    IF blocks = <<>> \/ Cardinality(env.uncles) = maxUncles THEN env
    ELSE commitUnclesSeq(commitUncle(env, Head(blocks)), Tail(blocks))

\* ------------------------------------------------------------ execution
\* ApplyTransaction: the error of executing tx on the environment's state.
ApplyErr(env, tx) ==
    IF tx.kind = "unsupported" THEN "TxTypeNotSupported"
    ELSE IF tx.nonce < env.state[tx.from] THEN "NonceTooLow"
    ELSE IF tx.nonce > env.state[tx.from] THEN "NonceTooHigh"
    ELSE IF tx.gas > env.gasPool THEN "GasLimitReached"
    ELSE IF tx.kind = "fail" THEN "other"
    ELSE "ok"

Receipt(tx) == [from |-> tx.from, nonce |-> tx.nonce, gasUsed |-> tx.gas]

\* worker.commitTransaction: on an error the state is reverted to the
\* snapshot (the environment is unchanged); on success the transaction and
\* its receipt are appended.
commitTransactionNoReceipt(env, tx) ==
    IF ApplyErr(env, tx) = "ok"
    THEN [env EXCEPT !.txs = Append(@, tx),
                     !.gasPool = @ - tx.gas,
                     !.state = [@ EXCEPT ![tx.from] = @ + 1]]
    ELSE env

commitTransaction(env, tx) ==
    IF ApplyErr(env, tx) = "ok"
    THEN [env EXCEPT !.txs = Append(@, tx),
                     !.receipts = Append(@, Receipt(tx)),
                     !.gasPool = @ - tx.gas,
                     !.state = [@ EXCEPT ![tx.from] = @ + 1]]
    ELSE env

\* The lazy allocation of the gas pool at the start of commitTransactions.
withGasPool(env) ==
    IF env.gasPool = NoGasPool THEN [env EXCEPT !.gasPool = env.gasLimit] ELSE env

\* One iteration of the commitTransactions loop below the interrupt check:
\* "break" when the block is full or the iterator is exhausted, otherwise
\* the transaction is executed and the iterator shifted or popped.
loopBreaks(env, txs) == env.gasPool < TxGas \/ NonEmptySenders(txs) = {}

\* chainConfig.EIP155Block, tx.Protected() and chainConfig.IsEIP155(number).
EIP155Block == 2

Protected(tx) == tx.kind = "protected"

IsEIP155(number) == number >= EIP155Block

\* The test in front of the execution: a replay-protected transaction on a
\* block before the EIP155 fork.
replayIgnoredUnprotected(env, tx) == ~Protected(tx) /\ IsEIP155(env.number)

replayIgnored(env, tx) == Protected(tx) /\ ~IsEIP155(env.number)

iterEnv(env, txs) ==
    LET e == commitTransaction(env, Peek(txs)) IN
    IF replayIgnored(env, Peek(txs)) THEN env
    ELSE IF ApplyErr(env, Peek(txs)) = "ok" THEN [e EXCEPT !.tcount = @ + 1] ELSE e

\* The switch of commitTransactions with Pop in the ErrNonceTooLow case.
iterTxsLowPops(env, txs) ==
    IF ApplyErr(env, Peek(txs)) \in {"GasLimitReached", "NonceTooHigh", "TxTypeNotSupported",
                                     "NonceTooLow"}
    THEN Pop(txs)
    ELSE Shift(txs)

\* The switch of commitTransactions with Shift in every case.
iterTxsAlwaysShift(env, txs) == Shift(txs)

iterTxs(env, txs) ==
    IF replayIgnored(env, Peek(txs)) THEN Pop(txs)
    ELSE IF ApplyErr(env, Peek(txs)) \in {"GasLimitReached", "NonceTooHigh", "TxTypeNotSupported"}
    THEN Pop(txs)
    ELSE Shift(txs)

\* The fill ratio sent with an interval-increase feedback, as a fraction
\* n/d: (gasLimit - gasPool) / gasLimit, at least 0.1.
fillRatio(env) ==
    IF (env.gasLimit - env.gasPool) * minRatioDen < env.gasLimit
    THEN [n |-> 1, d |-> minRatioDen]
    ELSE [n |-> env.gasLimit - env.gasPool, d |-> env.gasLimit]

\* The value commitTransactions returns once it has seen signal s.
interruptReturnAlways(s) == s # commitInterruptNone

interruptReturn(s) == s = commitInterruptNewHead

\* ------------------------------------------------------------ resubmit interval
\* recalcRecommit: the weighted average of the previous interval and the
\* target, biased by intervalAdjustBias, capped above (inc) or below (dec).
\* recalcRecommit without intervalAdjustBias in the decrease.
recalcRecommitNoBias(minRecommit, prev, target, inc) ==
    IF inc
    THEN Min((prev * (intervalAdjustRatioDen - 1) + target + intervalAdjustBias) \div intervalAdjustRatioDen,
             maxRecommitInterval)
    ELSE Max((prev * (intervalAdjustRatioDen - 1) + target) \div intervalAdjustRatioDen,
             minRecommit)

recalcRecommit(minRecommit, prev, target, inc) ==
    IF inc
    THEN Min((prev * (intervalAdjustRatioDen - 1) + target + intervalAdjustBias) \div intervalAdjustRatioDen,
             maxRecommitInterval)
    ELSE Max((prev * (intervalAdjustRatioDen - 1) + target - intervalAdjustBias) \div intervalAdjustRatioDen,
             minRecommit)

\* The sanitising of a recommit interval in newWorker and in newWorkLoop.
sanitize(interval) == IF interval < minRecommitInterval THEN minRecommitInterval ELSE interval

\* clearPending: the pending tasks that survive a pruning against number.
clearPendingKeepAll(tasks, number) == tasks

clearPending(tasks, number) == {t \in tasks : ~(t.number + staleThreshold <= number)}


\* ------------------------------------------------------------ state
VARIABLES
    running,            \* w.running (atomic)
    exitClosed,         \* exitCh is closed
    coinbase,           \* w.coinbase is set (non-zero)
    faulty,             \* the collaborators that fail at present
    startCh,            \* tokens in startCh (capacity 1)
    head,               \* number (and hash) of hc.CurrentBlock()
    included,           \* <<block, uncle hash>>: uncles included in the chain
    chainHeadCh,        \* queued ChainHeadEvents (block numbers)
    chainSideCh,        \* queued ChainSideEvents (side blocks)
    txsCh,              \* queued NewTxsEvents (batches of transactions)
    pool,               \* txPool.Pending(): sender -> transactions
    nw,                 \* newWorkLoop: position and locals
    cells,              \* the interrupt cells allocated so far
    newTxs,             \* w.newTxs (atomic)
    resubmitAdjustCh,   \* queued intervalAdjust messages
    ml,                 \* mainLoop: position and the locals of its handler
    current,            \* w.current
    snapshot,           \* snapshotBlock, snapshotReceipts, snapshotState
    localUncles,        \* w.localUncles
    remoteUncles,       \* w.remoteUncles
    tl,                 \* taskLoop: position, stopCh, prev, task in hand
    pendingTasks,       \* w.pendingTasks
    prefetch,           \* ids of the environments whose prefetcher runs
    cl,                 \* positions of the callers of the public controller
    budget              \* number of events the callers and collaborators may still produce

vars ==
    <<running, exitClosed, coinbase, faulty, startCh, head, included, chainHeadCh,
      chainSideCh, txsCh, pool, nw, cells, newTxs, resubmitAdjustCh, ml,
      current, snapshot, localUncles, remoteUncles, tl, pendingTasks,
      prefetch, cl, budget>>

chainVars == <<head, included, chainHeadCh>>
sideVars == <<chainSideCh, localUncles, remoteUncles>>
poolVars == <<pool, txsCh>>
flagVars == <<running, exitClosed, coinbase, faulty>>
envVars == <<current, snapshot, prefetch>>
taskVars == <<tl, pendingTasks>>

NoMsg == [n |-> 0, d |-> 1, inc |-> FALSE]

NoTask ==
    [number |-> 0, parentHash |-> 0, txs |-> <<>>, receipts |-> <<>>, uncles |-> {}]

\* The main loop in its select. Beside the locals of the handler the record
\* keeps what the round has observed: the first signal seen (sig) with the
\* transactions applied by then (txsAtSig), the batches returned (batches)
\* and the feedback sent (msgs).
MlIdle ==
    [pc |-> "idle", interrupt |-> 0, work |-> NilEnv,
     txs |-> EmptyTxs, rest |-> EmptyTxs, phase |-> "none", msg |-> NoMsg,
     ret |-> FALSE, task |-> NoTask, after |-> "none",
     sig |-> 0, txsAtSig |-> <<>>, batches |-> <<>>, msgs |-> <<>>]

\* The identity of a state object (values tell nothing about sharing): the
\* state of environment id, the n-th object made for the snapshot, the
\* object made for a caller of pending.
NoRef == <<"none", 0>>
EnvRef(id) == <<"env", id>>
SnapRef(n) == <<"snap", n>>
RetRef == <<"ret", 0>>

\* sref is the identity of snapshotState.
NoSnapshot ==
    [valid |-> FALSE, number |-> 0, parentHash |-> 0, txs |-> <<>>,
     receipts |-> <<>>, uncles |-> {}, state |-> [s \in Senders |-> 0], sref |-> NoRef]

\* What pending() has returned to its caller: nothing yet, or a block (its
\* number) and a state object.
NoPending == [valid |-> FALSE, number |-> 0, state |-> [s \in Senders |-> 0], sref |-> NoRef]

\* What a call has not returned yet; a returned value is a block (or a
\* header, its number) or nil, and an error ("" for nil).
NoReply == [nil |-> TRUE, block |-> NoTask, err |-> "none"]

\* The collaborators a prepareWork call depends on: the chain's current
\* block ("head"), engine.Prepare ("prepare"), the state at the parent
\* ("state").
PrepareFaults == {"head", "prepare", "state"}

\* The parameters commitWork passes: the current time, not forced.
workParams == [timestamp |-> 0, forceTime |-> FALSE]

\* pool.Locals(): the senders the pool marks as local.
Locals == {"A"}

\* The state at the parent's root: every account at nonce 0.
StateAt(parent) == [s \in Senders |-> 0]

\* The gas of the transactions a sender submits.
GasOf(s) == IF s = "A" THEN 1 ELSE 2

\* The state after construction (newWorker), for a configured recommit
\* interval (kept as config), an initial pool, the init flag (a first token
\* in startCh; the resubmit loop's record remembers it as init) and what the
\* collaborators may do.
InitWith(recommits, pools, inits, coinbases, faults, heads, b) ==
    /\ running = FALSE
    /\ exitClosed = FALSE
    /\ coinbase \in coinbases
    /\ faulty \in faults
    /\ startCh \in inits
    /\ head \in heads
    /\ included = {}
    /\ chainHeadCh = <<>>
    /\ chainSideCh = <<>>
    /\ txsCh = <<>>
    /\ pool \in pools
    /\ \E r \in recommits :
          nw = [pc |-> "idle", interrupt |-> 0, noempty |-> FALSE,
                recommit |-> sanitize(r), minRecommit |-> sanitize(r),
                timer |-> "off", pruned |-> FALSE, init |-> startCh, config |-> r]
    /\ cells = <<>>
    /\ newTxs = 0
    /\ resubmitAdjustCh = <<>>
    /\ ml = MlIdle
    /\ current = NilEnv
    /\ snapshot = NoSnapshot
    /\ localUncles = {}
    /\ remoteUncles = {}
    /\ tl = [pc |-> "idle", task |-> NoTask, stopCh |-> 0, open |-> {},
             closedTwice |-> FALSE, got |-> 0]
    /\ pendingTasks = {}
    /\ prefetch = {}
    /\ cl = [start |-> "idle", close |-> "idle", gen |-> "idle", req |-> workParams,
             reply |-> NoReply, ret |-> NoReply, gph |-> "idle", hdr |-> NoReply,
             pend |-> NoPending, mu |-> "free", arg |-> TRUE]
    /\ budget = b

\* ------------------------------------------------------------ controller
\* worker.start: running := 1, then a token is sent on startCh (capacity 1);
\* the caller blocks in the send while the channel is full. (The miner does
\* not start a worker it has closed.)
start ==
    /\ cl.start = "idle"
    /\ cl.close = "idle"
    /\ budget > 0
    /\ budget' = budget - 1
    /\ running' = TRUE
    /\ IF startCh = 0
       THEN startCh' = 1 /\ cl' = cl
       ELSE startCh' = startCh /\ cl' = [cl EXCEPT !.start = "send"]
    /\ UNCHANGED <<exitClosed, coinbase, faulty, chainVars, sideVars, poolVars, nw,
                   cells, newTxs, resubmitAdjustCh, ml, envVars, taskVars>>

\* The blocked send of start goes through.
startSend ==
    /\ cl.start = "send"
    /\ startCh = 0
    /\ startCh' = 1
    /\ cl' = [cl EXCEPT !.start = "idle"]
    /\ UNCHANGED <<flagVars, chainVars, sideVars, poolVars, nw, cells, newTxs,
                   resubmitAdjustCh, ml, envVars, taskVars, budget>>

\* worker.stop: running := 0.
stop ==
    /\ running
    /\ budget > 0
    /\ budget' = budget - 1
    /\ running' = FALSE
    /\ UNCHANGED <<exitClosed, coinbase, faulty, startCh, chainVars, sideVars, poolVars, nw, cells,
                   newTxs, resubmitAdjustCh, ml, envVars, taskVars, cl>>

\* worker.close: running := 0, exitCh is closed, then the caller waits for
\* the three loops (the worker is not closed twice).
close ==
    /\ cl.close = "idle"
    /\ budget > 0
    /\ budget' = budget - 1
    /\ running' = FALSE
    /\ exitClosed' = TRUE
    /\ cl' = [cl EXCEPT !.close = "wait"]
    /\ UNCHANGED <<coinbase, faulty, startCh, chainVars, sideVars, poolVars, nw, cells, newTxs,
                   resubmitAdjustCh, ml, envVars, taskVars>>

\* worker.setEtherbase: w.mu.Lock() (the read lock is only held inside
\* prepareWork, which is one step here) ...
setEtherbase ==
    /\ cl.mu = "free"
    /\ budget > 0
    /\ budget' = budget - 1
    /\ \E addr \in BOOLEAN : cl' = [cl EXCEPT !.mu = "held", !.arg = addr]
    /\ UNCHANGED <<flagVars, startCh, chainVars, sideVars, poolVars, nw, cells, newTxs,
                   resubmitAdjustCh, ml, envVars, taskVars>>

\* ... w.coinbase = addr, and the deferred w.mu.Unlock().
setEtherbase_write ==
    /\ cl.mu = "held"
    /\ coinbase' = cl.arg
    /\ cl' = [cl EXCEPT !.mu = "free"]
    /\ UNCHANGED <<running, exitClosed, faulty, startCh, chainVars, sideVars, poolVars, nw,
                   cells, newTxs, resubmitAdjustCh, ml, envVars, taskVars, budget>>

\* ------------------------------------------------------------ collaborators
\* The chain head advances by one block and the ChainHeadEvent is queued.
ChainHead ==
    /\ budget > 0
    /\ budget' = budget - 1
    /\ head' = head + 1
    /\ chainHeadCh' = Append(chainHeadCh, head + 1)
    /\ \E u \in {x \in SUBSET {b.hash : b \in localUncles \cup remoteUncles} :
                    Cardinality(x) <= 1} :
          included' = included \cup {<<head + 1, h>> : h \in u}
    /\ UNCHANGED <<flagVars, startCh, sideVars, poolVars, nw, cells, newTxs,
                   resubmitAdjustCh, ml, envVars, taskVars, cl>>

\* The pool promotes one more transaction of a sender and announces it.
NewTxs ==
    /\ budget > 0
    /\ budget' = budget - 1
    /\ \E s \in Senders :
          LET tx == Tx(s, Len(pool[s]), GasOf(s), "ok") IN
          /\ pool' = [pool EXCEPT ![s] = Append(@, tx)]
          /\ txsCh' = Append(txsCh, <<tx>>)
    /\ UNCHANGED <<flagVars, startCh, chainVars, sideVars, nw, cells, newTxs,
                   resubmitAdjustCh, ml, envVars, taskVars, cl>>


\* A collaborator of prepareWork starts to fail: the chain has no current
\* block, engine.Prepare returns an error, or the parent's state is gone.
Fault ==
    /\ budget > 0
    /\ budget' = budget - 1
    /\ faulty \cap PrepareFaults = {}
    /\ \E f \in PrepareFaults : faulty' = faulty \cup {f}
    /\ UNCHANGED <<running, exitClosed, coinbase, startCh, chainVars, sideVars, poolVars,
                   nw, cells, newTxs, resubmitAdjustCh, ml, envVars, taskVars, cl>>

\* The collaborators of prepareWork work again.
Heal ==
    /\ faulty \cap PrepareFaults # {}
    /\ faulty' = faulty \ PrepareFaults
    /\ UNCHANGED <<running, exitClosed, coinbase, startCh, chainVars, sideVars, poolVars,
                   nw, cells, newTxs, resubmitAdjustCh, ml, envVars, taskVars, cl, budget>>

\* The side block built on parent p by a local or a remote author.
SideBlock(p, l) ==
    [hash |-> SideHashBase + 2 * p + (IF l THEN 0 ELSE 1), parent |-> p, local |-> l]

\* A side block is announced (ChainSideEvent).
ChainSide ==
    /\ budget > 0
    /\ budget' = budget - 1
    /\ \E p \in 0..head, l \in BOOLEAN : chainSideCh' = Append(chainSideCh, SideBlock(p, l))
    /\ UNCHANGED <<flagVars, startCh, chainVars, localUncles, remoteUncles, poolVars, nw,
                   cells, newTxs, resubmitAdjustCh, ml, envVars, taskVars, cl>>

\* ------------------------------------------------------------ newWorkLoop
\* The value of an interrupt cell (a nil pointer reads as "none").
cellValue(c) == IF c = 0 THEN commitInterruptNone ELSE cells[c]

\* commit without the atomic.StoreInt32 into the previous request's cell.
commitCellsNoStore(s) == Append(cells, commitInterruptNone)

\* commit (closure of newWorkLoop): the signal is stored in the cell of the
\* request in flight, then a fresh cell is allocated for the new request.
commitCells(s) ==
    Append(IF nw.interrupt # 0 THEN [cells EXCEPT ![nw.interrupt] = s] ELSE cells,
           commitInterruptNone)

commitReq(noempty) ==
    [nw EXCEPT !.pc = "send", !.interrupt = Len(cells) + 1, !.noempty = noempty]

\* case <-w.startCh
newWorkLoop_start ==
    /\ nw.pc = "idle"
    /\ startCh = 1
    /\ startCh' = 0
    /\ pendingTasks' = clearPending(pendingTasks, head)
    /\ cells' = commitCells(commitInterruptNewHead)
    /\ nw' = [commitReq(FALSE) EXCEPT
                 !.pruned = @ \/ clearPending(pendingTasks, head) # pendingTasks]
    /\ UNCHANGED <<flagVars, chainVars, sideVars, poolVars, newTxs, resubmitAdjustCh,
                   ml, envVars, tl, cl, budget>>

\* case head := <-w.chainHeadCh
newWorkLoop_chainHead ==
    /\ nw.pc = "idle"
    /\ chainHeadCh # <<>>
    /\ chainHeadCh' = Tail(chainHeadCh)
    /\ pendingTasks' = clearPending(pendingTasks, Head(chainHeadCh))
    /\ cells' = commitCells(commitInterruptNewHead)
    /\ nw' = [commitReq(FALSE) EXCEPT
                 !.pruned = @ \/ clearPending(pendingTasks, Head(chainHeadCh)) # pendingTasks]
    /\ UNCHANGED <<flagVars, startCh, head, included, sideVars, poolVars, newTxs,
                   resubmitAdjustCh, ml, envVars, tl, cl, budget>>

\* The timer case without the short circuit's timer.Reset.
newWorkLoop_timerNoReset ==
    /\ nw.pc = "idle"
    /\ nw.timer = "armed"
    /\ IF running /\ newTxs # 0
       THEN /\ cells' = commitCells(commitInterruptResubmit)
            /\ nw' = [commitReq(TRUE) EXCEPT !.timer = "off"]
       ELSE /\ nw' = [nw EXCEPT !.timer = "off"]
            /\ cells' = cells
    /\ UNCHANGED <<flagVars, startCh, chainVars, sideVars, poolVars, newTxs,
                   resubmitAdjustCh, ml, envVars, taskVars, cl, budget>>

\* case <-timer.C (the chain configuration has no zero-period clique)
newWorkLoop_timer ==
    /\ nw.pc = "idle"
    /\ nw.timer = "armed"
    /\ IF running
       THEN IF newTxs = 0
            THEN /\ nw' = [nw EXCEPT !.timer = "armed"]
                 /\ cells' = cells
            ELSE /\ cells' = commitCells(commitInterruptResubmit)
                 /\ nw' = [commitReq(TRUE) EXCEPT !.timer = "off"]
       ELSE /\ nw' = [nw EXCEPT !.timer = "off"]
            /\ cells' = cells
    /\ UNCHANGED <<flagVars, startCh, chainVars, sideVars, poolVars, newTxs,
                   resubmitAdjustCh, ml, envVars, taskVars, cl, budget>>

\* The send on newWorkCh in commit meets the main loop's receive; commit then
\* resets the timer and zeroes newTxs, and the main loop enters commitWork.
newWorkCh_send ==
    /\ nw.pc = "send"
    /\ ml.pc = "idle"
    /\ nw' = [nw EXCEPT !.pc = "idle", !.timer = "armed"]
    /\ newTxs' = 0
    /\ ml' = [MlIdle EXCEPT !.pc = "prepare", !.interrupt = nw.interrupt, !.after = "swap"]
    /\ UNCHANGED <<flagVars, startCh, chainVars, sideVars, poolVars, cells,
                   resubmitAdjustCh, envVars, taskVars, cl, budget>>

\* commit: case <-w.exitCh instead of the send.
newWorkLoop_sendExit ==
    /\ nw.pc = "send"
    /\ exitClosed
    /\ nw' = [nw EXCEPT !.pc = "idle"]
    /\ UNCHANGED <<flagVars, startCh, chainVars, sideVars, poolVars, cells, newTxs,
                   resubmitAdjustCh, ml, envVars, taskVars, cl, budget>>

\* The interval newWorkLoop computes from a feedback message.
adjusted(msg, minRecommit, recommit) ==
    IF msg.inc
    THEN recalcRecommit(minRecommit, recommit, (recommit * msg.d) \div msg.n, TRUE)
    ELSE recalcRecommit(minRecommit, recommit, minRecommit, FALSE)

\* case adjust := <-w.resubmitAdjustCh
newWorkLoop_adjust ==
    /\ nw.pc = "idle"
    /\ resubmitAdjustCh # <<>>
    /\ resubmitAdjustCh' = Tail(resubmitAdjustCh)
    /\ nw' = [nw EXCEPT !.recommit = adjusted(Head(resubmitAdjustCh), nw.minRecommit, nw.recommit)]
    /\ UNCHANGED <<flagVars, startCh, chainVars, sideVars, poolVars, cells, newTxs,
                   ml, envVars, taskVars, cl, budget>>

\* case interval := <-w.resubmitIntervalCh, meeting the send of a caller of
\* setRecommitInterval: the interval is sanitised and becomes both the
\* minimum and the current interval.
Intervals == {500, 3000, 20000}

newWorkLoop_interval ==
    /\ nw.pc = "idle"
    /\ budget > 0
    /\ budget' = budget - 1
    /\ \E interval \in Intervals :
          nw' = [nw EXCEPT !.minRecommit = sanitize(interval), !.recommit = sanitize(interval)]
    /\ UNCHANGED <<flagVars, startCh, chainVars, sideVars, poolVars, cells, newTxs,
                   resubmitAdjustCh, ml, envVars, taskVars, cl>>

\* case <-w.exitCh
newWorkLoop_exit ==
    /\ nw.pc = "idle"
    /\ exitClosed
    /\ nw' = [nw EXCEPT !.pc = "done"]
    /\ UNCHANGED <<flagVars, startCh, chainVars, sideVars, poolVars, cells, newTxs,
                   resubmitAdjustCh, ml, envVars, taskVars, cl, budget>>

\* ------------------------------------------------------------ commitWork
\* The orders in which a Go map range can visit a pool.
Orders(S) == {f \in [1..Cardinality(S) -> S] : \A i, j \in 1..Cardinality(S) : f[i] = f[j] => i = j}

\* The number of the header built on a parent.
headerNumberStale(parent) == parent

headerNumber(parent) == parent + 1

\* prepareWork: the header is built on the current head, the environment is
\* made, and up to two uncles are installed, local ones first.
prepareWork(id, parent, incl, lo, ro) ==
    LET env == makeEnv(id, parent, BlockGasLimit, StateAt(parent), incl) IN
    commitUnclesSeq(commitUnclesSeq([env EXCEPT !.number = headerNumber(parent)], lo), ro)

\* header.Time() of a block: blocks are one unit of time apart.
blockTime(n) == n

\* prepareWork, lines 967-972: a forced timestamp that is not after the
\* parent's time is an error (an unforced one is moved after it).
timestampErrNever(forceTime, parentTime, timestamp) == FALSE

timestampErr(forceTime, parentTime, timestamp) == forceTime /\ parentTime >= timestamp

\* A running worker without a coinbase refuses to mine.
refusesNever(isRunning, hasCoinbase) == FALSE

refusesToMine(isRunning, hasCoinbase) == isRunning /\ ~hasCoinbase

\* The failure that strikes a prepareWork call; "none" while its
\* collaborators all work.
Strikes == IF faulty \cap PrepareFaults = {} THEN {"none"} ELSE faulty \cap PrepareFaults

\* The error prepareWork returns for the parameters of a request when the
\* failure f strikes, in the order of its checks; "ok" for none.
prepareWorkErrNone(genParams, f) == "ok"

prepareWorkErr(genParams, f) ==
    IF f = "head" THEN "missing parent"
    ELSE IF timestampErr(genParams.forceTime, blockTime(head), genParams.timestamp)
    THEN "invalid timestamp"
    ELSE IF refusesToMine(running, coinbase) THEN "refusing to mine without etherbase"
    ELSE IF f = "prepare" THEN "failed to prepare header"
    ELSE IF f = "state" THEN "failed to create sealing context"
    ELSE "ok"

\* fillTransactions: the pending transactions of local and of remote senders.
localTxs(pending) == [s \in Senders |-> IF s \in Locals THEN pending[s] ELSE <<>>]
remoteTxs(pending) == [s \in Senders |-> IF s \in Locals THEN <<>> ELSE pending[s]]

\* Where fillTransactions goes first: the local batch, the remote batch or,
\* with nothing pending, straight on to commit.
fillStart(m, env, pending) ==
    IF NonEmptySenders(localTxs(pending)) # {}
    THEN [m EXCEPT !.pc = "batch", !.phase = "local", !.work = withGasPool(env),
                   !.txs = localTxs(pending), !.rest = remoteTxs(pending)]
    ELSE IF NonEmptySenders(remoteTxs(pending)) # {}
    THEN [m EXCEPT !.pc = "batch", !.phase = "remote", !.work = withGasPool(env),
                   !.txs = remoteTxs(pending)]
    ELSE [m EXCEPT !.pc = "commit", !.work = env]

\* The identity of a newly made environment: one that no environment whose
\* prefetcher runs, nor the current one, has.
newEnvId ==
    CHOOSE i \in 1..(Cardinality(prefetch) + 2) :
        /\ i \notin prefetch \cup {current.id}
        /\ \A j \in 1..(i - 1) : j \in prefetch \cup {current.id}

\* commitWork up to the first batch: the coinbase check, prepareWork (the
\* round is given up if it fails), adjustGasLimit and the start of
\* fillTransactions.
\* commitWork from prepareWork on, with the read lock held.
prepareRound ==
    \E f \in Strikes :
       IF refusesToMine(running, coinbase) \/ prepareWorkErr(workParams, f) # "ok"
       THEN /\ ml' = MlIdle
            /\ UNCHANGED prefetch
       ELSE /\ \E lo \in Orders(localUncles), ro \in Orders(remoteUncles) :
                  ml' = fillStart(ml, prepareWork(newEnvId, head, included, lo, ro), pool)
            /\ prefetch' = prefetch \cup {newEnvId}

\* commitWork reads w.coinbase without the config mutex (lines 1102-1108):
\* while a setter holds the write lock the read races with the setter's
\* write and gives the old or the new address, and prepareWork then waits
\* for the read lock.
commitWork_prepare ==
    /\ ml.pc = "prepare"
    /\ IF cl.mu = "held"
       THEN /\ \E c \in {coinbase, cl.arg} :
                  ml' = IF refusesToMine(running, c) THEN MlIdle ELSE [ml EXCEPT !.pc = "rlock"]
            /\ UNCHANGED prefetch
       ELSE prepareRound
    /\ UNCHANGED <<flagVars, startCh, chainVars, sideVars, poolVars, nw, cells, newTxs,
                   resubmitAdjustCh, current, snapshot, taskVars, cl, budget>>

\* prepareWork has the read lock of the config mutex (w.mu.RLock).
commitWork_rlock ==
    /\ ml.pc = "rlock"
    /\ cl.mu = "free"
    /\ prepareRound
    /\ UNCHANGED <<flagVars, startCh, chainVars, sideVars, poolVars, nw, cells, newTxs,
                   resubmitAdjustCh, current, snapshot, taskVars, cl, budget>>

\* What fillTransactions does when a batch has returned ret: on true it
\* returns, otherwise the remote batch follows the local one.
afterBatchIgnoresRet(m, ret) ==
    IF m.phase = "local" /\ NonEmptySenders(m.rest) # {}
    THEN [m EXCEPT !.pc = "batch", !.phase = "remote", !.txs = m.rest,
                   !.rest = EmptyTxs, !.msg = NoMsg, !.ret = FALSE]
    ELSE [m EXCEPT !.pc = "commit", !.phase = "none", !.txs = EmptyTxs,
                   !.rest = EmptyTxs, !.msg = NoMsg, !.ret = FALSE]

afterBatch(m, ret) ==
    IF ~ret /\ m.phase = "local" /\ NonEmptySenders(m.rest) # {}
    THEN [m EXCEPT !.pc = "batch", !.phase = "remote", !.txs = m.rest,
                   !.rest = EmptyTxs, !.msg = NoMsg, !.ret = FALSE]
    ELSE [m EXCEPT !.pc = "commit", !.phase = "none", !.txs = EmptyTxs,
                   !.rest = EmptyTxs, !.msg = NoMsg, !.ret = FALSE]

\* The round with the first signal it observes noted.
observed(m, s) ==
    IF m.sig = commitInterruptNone THEN [m EXCEPT !.sig = s, !.txsAtSig = m.work.txs] ELSE m

\* Whether a batch that ends without a signal reports to the resubmit loop.
feedbackOnExitNever(interrupt) == FALSE

feedbackOnExit(interrupt) == interrupt # 0

\* A batch returns ret, having sent the messages in sent (none or one).
batchReturns(m, s, ret, sent) ==
    /\ ml' = [afterBatch(m, ret) EXCEPT
                 !.batches = Append(@, [sig |-> s, ret |-> ret]),
                 !.msgs = @ \o [i \in 1..Len(sent) |-> sent[i].inc]]
    /\ resubmitAdjustCh' = resubmitAdjustCh \o sent

\* A batch has a message to send: it is sent at once when resubmitAdjustCh
\* has room, otherwise the main loop blocks in the send.
batchSends(m, s, ret, msg) ==
    IF Len(resubmitAdjustCh) < resubmitAdjustChanSize
    THEN batchReturns(m, s, ret, <<msg>>)
    ELSE /\ ml' = [m EXCEPT !.pc = "sendAdj", !.msg = msg, !.ret = ret]
         /\ UNCHANGED resubmitAdjustCh

\* One pass of the loop of commitTransactions in a commitWork round.
commitTransactions_iter ==
    /\ ml.pc = "batch"
    /\ LET s == cellValue(ml.interrupt) IN
       IF s # commitInterruptNone
       THEN LET m == observed(ml, s) IN
            IF s = commitInterruptResubmit
            THEN batchSends(m, s, interruptReturn(s),
                            [n |-> fillRatio(ml.work).n, d |-> fillRatio(ml.work).d, inc |-> TRUE])
            ELSE batchReturns(m, s, interruptReturn(s), <<>>)
       ELSE IF loopBreaks(ml.work, ml.txs)
       THEN IF feedbackOnExit(ml.interrupt)
            THEN batchSends(ml, s, FALSE, NoMsg)
            ELSE batchReturns(ml, s, FALSE, <<>>)
       ELSE /\ ml' = [ml EXCEPT !.work = iterEnv(ml.work, ml.txs),
                                !.txs = iterTxs(ml.work, ml.txs)]
            /\ UNCHANGED resubmitAdjustCh
    /\ UNCHANGED <<flagVars, startCh, chainVars, sideVars, poolVars, nw, cells, newTxs,
                   envVars, taskVars, cl, budget>>

\* The blocked send on resubmitAdjustCh goes through.
commitTransactions_send ==
    /\ ml.pc = "sendAdj"
    /\ Len(resubmitAdjustCh) < resubmitAdjustChanSize
    /\ batchReturns(ml, IF ml.msg.inc THEN commitInterruptResubmit ELSE commitInterruptNone,
                    ml.ret, <<ml.msg>>)
    /\ UNCHANGED <<flagVars, startCh, chainVars, sideVars, poolVars, nw, cells, newTxs,
                   envVars, taskVars, cl, budget>>


\* ------------------------------------------------------------ commit
\* The task made of an assembled environment.
TaskNoTxs(env) ==
    [number |-> env.number, parentHash |-> env.parentHash, txs |-> <<>>,
     receipts |-> <<>>, uncles |-> UncleHashes(env)]

Task(env) ==
    [number |-> env.number, parentHash |-> env.parentHash, txs |-> env.txs,
     receipts |-> env.receipts, uncles |-> UncleHashes(env)]

\* engine.SealHash of the task's header.
SealHash(t) == <<t.number, t.parentHash, t.txs, t.uncles>>

\* worker.updateSnapshot: the block of the environment's header, transactions
\* and uncles, and copies of its receipts and state.
updateSnapshotShares(env) ==
    [valid |-> TRUE, number |-> env.number, parentHash |-> env.parentHash,
     txs |-> env.txs, receipts |-> env.receipts, uncles |-> UncleHashes(env),
     state |-> env.state, sref |-> EnvRef(env.id)]

\* env.state.Copy() makes an object that no one holds yet.
updateSnapshot(env) ==
    [valid |-> TRUE, number |-> env.number, parentHash |-> env.parentHash,
     txs |-> env.txs, receipts |-> env.receipts, uncles |-> UncleHashes(env),
     state |-> env.state,
     sref |-> IF cl.pend.sref = SnapRef(1) THEN SnapRef(2) ELSE SnapRef(1)]

\* environment.discard: the prefetcher of the environment is stopped.
discard(env) == prefetch \ {env.id}

\* The end of commit and of its caller: the snapshot is updated (update),
\* and commitWork swaps the new environment in, discarding the old one.
commitEnds(update) ==
    /\ snapshot' = IF update THEN updateSnapshot(copy(ml.work)) ELSE snapshot
    /\ IF ml.after = "swap"
       THEN /\ prefetch' = discard(current)
            /\ current' = ml.work
       ELSE UNCHANGED <<prefetch, current>>
    /\ ml' = MlIdle

\* commit without the isRunning test: the block is assembled and sent as a
\* task whatever the running flag says.
commit_assembleAlways ==
    /\ ml.pc = "commit"
    /\ \E ok \in {TRUE} \cup {FALSE : f \in faulty \cap {"assemble"}} :
          IF ok
          THEN /\ ml' = [ml EXCEPT !.pc = "sendTask", !.task = Task(copy(copy(ml.work)))]
               /\ UNCHANGED <<snapshot, prefetch, current>>
          ELSE commitEnds(FALSE)
    /\ UNCHANGED <<flagVars, startCh, chainVars, sideVars, poolVars, nw, cells, newTxs,
                   resubmitAdjustCh, taskVars, cl, budget>>

\* commit: with the worker running the engine assembles the block of a copy
\* of the environment (and may fail); otherwise only the snapshot is updated.
commit_assemble ==
    /\ ml.pc = "commit"
    /\ IF running
       THEN \E ok \in {TRUE} \cup {FALSE : f \in faulty \cap {"assemble"}} :
               IF ok
               THEN /\ ml' = [ml EXCEPT !.pc = "sendTask", !.task = Task(copy(copy(ml.work)))]
                    /\ UNCHANGED <<snapshot, prefetch, current>>
               ELSE commitEnds(FALSE)
       ELSE commitEnds(TRUE)
    /\ UNCHANGED <<flagVars, startCh, chainVars, sideVars, poolVars, nw, cells, newTxs,
                   resubmitAdjustCh, taskVars, cl, budget>>

\* interrupt (closure of taskLoop): the stop channel in hand, if any, is
\* closed and forgotten. Closing a channel that is not open panics.
interruptKeepsOpen(t) == t

interrupt(t) ==
    IF t.stopCh # 0
    THEN [t EXCEPT !.open = @ \ {t.stopCh},
                   !.closedTwice = @ \/ t.stopCh \notin t.open,
                   !.stopCh = 0]
    ELSE t

\* stopCh = make(chan struct{}): a channel no open one is identical to.
makeStopCh(t) ==
    LET c == CHOOSE i \in 1..(Cardinality(t.open) + 1) :
                 /\ i \notin t.open
                 /\ \A j \in 1..(i - 1) : j \in t.open
    IN [t EXCEPT !.stopCh = c, !.open = @ \cup {c}]

\* commit's send on taskCh meets the task loop's receive: the previous
\* sealing is interrupted (its stop channel closed) and a new one recorded.
\* got counts the tasks received, up to MaxGot.
taskCh_send ==
    /\ ml.pc = "sendTask"
    /\ tl.pc = "idle"
    /\ tl' = [makeStopCh(interrupt(tl)) EXCEPT !.pc = "insert", !.task = ml.task,
                                              !.got = Min(@ + 1, MaxGot)]
    /\ commitEnds(TRUE)
    /\ UNCHANGED <<flagVars, startCh, chainVars, sideVars, poolVars, nw, cells, newTxs,
                   resubmitAdjustCh, pendingTasks, cl, budget>>

\* commit: case <-w.exitCh instead of the send.
commit_exit ==
    /\ ml.pc = "sendTask"
    /\ exitClosed
    /\ commitEnds(TRUE)
    /\ UNCHANGED <<flagVars, startCh, chainVars, sideVars, poolVars, nw, cells, newTxs,
                   resubmitAdjustCh, taskVars, cl, budget>>

\* ------------------------------------------------------------ taskLoop
\* w.pendingTasks[sealHash] = task
insertTask(tasks, t) == {x \in tasks : SealHash(x) # SealHash(t)} \cup {t}

taskLoop_insert ==
    /\ tl.pc = "insert"
    /\ pendingTasks' = insertTask(pendingTasks, tl.task)
    /\ tl' = [tl EXCEPT !.pc = "idle", !.task = NoTask]
    /\ UNCHANGED <<flagVars, startCh, chainVars, sideVars, poolVars, nw, cells, newTxs,
                   resubmitAdjustCh, ml, envVars, cl, budget>>

\* case <-w.exitCh
taskLoop_exit ==
    /\ tl.pc = "idle"
    /\ exitClosed
    /\ tl' = [interrupt(tl) EXCEPT !.pc = "done"]
    /\ UNCHANGED <<flagVars, startCh, chainVars, sideVars, poolVars, nw, cells, newTxs,
                   resubmitAdjustCh, ml, envVars, pendingTasks, cl, budget>>

\* ------------------------------------------------------------ mainLoop
\* commitTransactions with a nil interrupt, run to its end.
RECURSIVE commitTransactions(_, _)
commitTransactions(env, txs) ==
    IF loopBreaks(env, txs) THEN env
    ELSE commitTransactions(iterEnv(env, txs), iterTxs(env, txs))

\* The transactions of an event, by sender.
bySender(evTxs) == [s \in Senders |-> SelectSeq(evTxs, LAMBDA t : t.from = s)]

\* The txs case with the full-block test falling through to the counter
\* instead of "continue".
mainLoop_txsCounted ==
    /\ ml.pc = "idle"
    /\ txsCh # <<>>
    /\ txsCh' = Tail(txsCh)
    /\ newTxs' = newTxs + Len(Head(txsCh))
    /\ IF /\ ~running
          /\ current.id # 0
          /\ ~(current.gasPool # NoGasPool /\ current.gasPool < TxGas)
       THEN LET env == commitTransactions(withGasPool(current), bySender(Head(txsCh))) IN
            /\ current' = env
            /\ snapshot' = IF env.tcount # current.tcount THEN updateSnapshot(env) ELSE snapshot
       ELSE UNCHANGED <<current, snapshot>>
    /\ UNCHANGED <<flagVars, startCh, chainVars, sideVars, pool, nw, cells,
                   resubmitAdjustCh, ml, prefetch, taskVars, cl, budget>>

\* case ev := <-w.txsCh (the chain configuration has no zero-period clique)
mainLoop_txs ==
    /\ ml.pc = "idle"
    /\ txsCh # <<>>
    /\ txsCh' = Tail(txsCh)
    /\ IF ~running /\ current.id # 0
       THEN IF current.gasPool # NoGasPool /\ current.gasPool < TxGas
            THEN UNCHANGED <<current, snapshot, newTxs>>
            ELSE LET env == commitTransactions(withGasPool(current), bySender(Head(txsCh))) IN
                 /\ current' = env
                 /\ snapshot' = IF env.tcount # current.tcount THEN updateSnapshot(env) ELSE snapshot
                 /\ newTxs' = newTxs + Len(Head(txsCh))
       ELSE /\ newTxs' = newTxs + Len(Head(txsCh))
            /\ UNCHANGED <<current, snapshot>>
    /\ UNCHANGED <<flagVars, startCh, chainVars, sideVars, pool, nw, cells,
                   resubmitAdjustCh, ml, prefetch, taskVars, cl, budget>>

\* The chainSideCh case that pools every side block as remote, whatever
\* isLocalBlock says.
mainLoop_sideAllRemote ==
    /\ ml.pc = "idle"
    /\ chainSideCh # <<>>
    /\ chainSideCh' = Tail(chainSideCh)
    /\ LET b == Head(chainSideCh) IN
       IF b.hash \in {u.hash : u \in localUncles \cup remoteUncles}
       THEN UNCHANGED <<localUncles, remoteUncles, current, ml, cl>>
       ELSE /\ localUncles' = localUncles
            /\ cl' = IF cl.gph = "uncles" THEN [cl EXCEPT !.gph = "raced"] ELSE cl
            /\ remoteUncles' = remoteUncles \cup {b}
            /\ IF /\ running
                  /\ current.id # 0
                  /\ Cardinality(current.uncles) < maxUncles
                  /\ commitUncleErr(current, b) = "ok"
               THEN /\ current' = commitUncle(current, b)
                    /\ ml' = [MlIdle EXCEPT !.pc = "commit", !.work = copy(commitUncle(current, b))]
               ELSE UNCHANGED <<current, ml>>
    /\ UNCHANGED <<flagVars, startCh, chainVars, poolVars, nw, cells, newTxs,
                   resubmitAdjustCh, snapshot, prefetch, taskVars, budget>>

\* The chainSideCh case without the isRunning test before commitUncle.
mainLoop_sideNotRunning ==
    /\ ml.pc = "idle"
    /\ chainSideCh # <<>>
    /\ chainSideCh' = Tail(chainSideCh)
    /\ LET b == Head(chainSideCh) IN
       IF b.hash \in {u.hash : u \in localUncles \cup remoteUncles}
       THEN UNCHANGED <<localUncles, remoteUncles, current, ml, cl>>
       ELSE /\ localUncles' = IF b.local THEN localUncles \cup {b} ELSE localUncles
            /\ cl' = IF cl.gph = "uncles" THEN [cl EXCEPT !.gph = "raced"] ELSE cl
            /\ remoteUncles' = IF b.local THEN remoteUncles ELSE remoteUncles \cup {b}
            /\ IF /\ current.id # 0
                  /\ Cardinality(current.uncles) < maxUncles
                  /\ commitUncleErr(current, b) = "ok"
               THEN /\ current' = commitUncle(current, b)
                    /\ ml' = [MlIdle EXCEPT !.pc = "commit", !.work = copy(commitUncle(current, b))]
               ELSE UNCHANGED <<current, ml>>
    /\ UNCHANGED <<flagVars, startCh, chainVars, poolVars, nw, cells, newTxs,
                   resubmitAdjustCh, snapshot, prefetch, taskVars, budget>>

\* case ev := <-w.chainSideCh: a side block not yet pooled is pooled by
\* author; a running worker whose block has fewer than two uncles tries to
\* add it and, if admitted, commits a copy of the current environment.
mainLoop_side ==
    /\ ml.pc = "idle"
    /\ chainSideCh # <<>>
    /\ chainSideCh' = Tail(chainSideCh)
    /\ LET b == Head(chainSideCh) IN
       IF b.hash \in {u.hash : u \in localUncles \cup remoteUncles}
       THEN UNCHANGED <<localUncles, remoteUncles, current, ml, cl>>
       ELSE /\ localUncles' = IF b.local THEN localUncles \cup {b} ELSE localUncles
            /\ cl' = IF cl.gph = "uncles" THEN [cl EXCEPT !.gph = "raced"] ELSE cl
            /\ remoteUncles' = IF b.local THEN remoteUncles ELSE remoteUncles \cup {b}
            /\ IF /\ running
                  /\ current.id # 0
                  /\ Cardinality(current.uncles) < maxUncles
                  /\ commitUncleErr(current, b) = "ok"
               THEN /\ current' = commitUncle(current, b)
                    /\ ml' = [MlIdle EXCEPT !.pc = "commit", !.work = copy(commitUncle(current, b))]
               ELSE UNCHANGED <<current, ml>>
    /\ UNCHANGED <<flagVars, startCh, chainVars, poolVars, nw, cells, newTxs,
                   resubmitAdjustCh, snapshot, prefetch, taskVars, budget>>

\* fillTransactions with a nil interrupt: the local batch, then the remote.
fillTransactions(env, pending) ==
    LET l == IF NonEmptySenders(localTxs(pending)) # {}
             THEN commitTransactions(withGasPool(env), localTxs(pending))
             ELSE env
    IN IF NonEmptySenders(remoteTxs(pending)) # {}
       THEN commitTransactions(withGasPool(l), remoteTxs(pending))
       ELSE l

\* generateWork for the parameters of a request: the block assembled of a
\* new environment (whose prefetcher is stopped on return), or the error of
\* prepareWork (failure f strikes) or of the engine (ok is false).
generateWork(genParams, f, lo, ro, ok) ==
    IF prepareWorkErr(genParams, f) # "ok"
    THEN [nil |-> TRUE, block |-> NoTask, err |-> prepareWorkErr(genParams, f)]
    ELSE IF ~ok
    THEN [nil |-> TRUE, block |-> NoTask, err |-> "failed to assemble"]
    ELSE [nil |-> FALSE,
          block |-> Task(fillTransactions(prepareWork(newEnvId, head, included, lo, ro), pool)),
          err |-> ""]

\* case req := <-w.getWorkCh, met by the send of getSealingBlock: the work
\* is generated and the block, or nil with req.err set, is put in the
\* request's result channel (capacity 1).
mainLoop_getWork ==
    /\ ml.pc = "idle"
    /\ cl.gen = "send"
    /\ \E f \in Strikes, lo \in Orders(localUncles), ro \in Orders(remoteUncles),
          ok \in {TRUE} \cup {FALSE : x \in faulty \cap {"assemble"}} :
          cl' = [cl EXCEPT !.gen = "recv", !.reply = generateWork(cl.req, f, lo, ro, ok)]
    /\ UNCHANGED <<flagVars, startCh, chainVars, sideVars, poolVars, nw, cells, newTxs,
                   resubmitAdjustCh, ml, envVars, taskVars, budget>>

\* case <-w.txsSub.Err(), <-w.chainHeadSub.Err(), <-w.chainSideSub.Err():
\* the main loop returns (the deferred function discards the current
\* environment); exitCh is left as it is.
mainLoop_subErr ==
    /\ ml.pc = "idle"
    /\ "sub" \in faulty
    /\ ml' = [ml EXCEPT !.pc = "done"]
    /\ prefetch' = discard(current)
    /\ UNCHANGED <<flagVars, startCh, chainVars, sideVars, poolVars, nw, cells, newTxs,
                   resubmitAdjustCh, current, snapshot, taskVars, cl, budget>>

\* case <-w.exitCh: the deferred function discards the current environment.
mainLoop_exit ==
    /\ ml.pc = "idle"
    /\ exitClosed
    /\ ml' = [ml EXCEPT !.pc = "done"]
    /\ prefetch' = discard(current)
    /\ UNCHANGED <<flagVars, startCh, chainVars, sideVars, poolVars, nw, cells, newTxs,
                   resubmitAdjustCh, current, snapshot, taskVars, cl, budget>>

\* ------------------------------------------------------------ public calls
\* getSealingBlock: the caller builds a request with a forced timestamp and
\* offers it on getWorkCh.
getSealingBlock ==
    /\ cl.gen = "idle"
    /\ budget > 0
    /\ budget' = budget - 1
    /\ \E t \in {blockTime(head), blockTime(head) + 1} :
          cl' = [cl EXCEPT !.gen = "send", !.req = [timestamp |-> t, forceTime |-> TRUE],
                           !.reply = NoReply, !.ret = NoReply]
    /\ UNCHANGED <<flagVars, startCh, chainVars, sideVars, poolVars, nw, cells, newTxs,
                   resubmitAdjustCh, ml, envVars, taskVars>>

\* block := <-req.result: the call returns the reply of the main loop.
getSealingBlock_result ==
    /\ cl.gen = "recv"
    /\ cl' = [cl EXCEPT !.gen = "idle", !.ret = cl.reply, !.reply = NoReply]
    /\ UNCHANGED <<flagVars, startCh, chainVars, sideVars, poolVars, nw, cells, newTxs,
                   resubmitAdjustCh, ml, envVars, taskVars, budget>>

\* case <-w.exitCh instead of the send: "miner closed".
getSealingBlock_exit ==
    /\ cl.gen = "send"
    /\ exitClosed
    /\ cl' = [cl EXCEPT !.gen = "idle",
                        !.ret = [nil |-> TRUE, block |-> NoTask, err |-> "miner closed"]]
    /\ UNCHANGED <<flagVars, startCh, chainVars, sideVars, poolVars, nw, cells, newTxs,
                   resubmitAdjustCh, ml, envVars, taskVars, budget>>

\* pending: nil while no snapshot is published, otherwise the snapshot's
\* block and a copy of its state, an object of the caller's own.
pending ==
    /\ budget > 0
    /\ budget' = budget - 1
    /\ cl' = [cl EXCEPT !.pend =
                 IF ~snapshot.valid THEN NoPending
                 ELSE [valid |-> TRUE, number |-> snapshot.number,
                       state |-> snapshot.state, sref |-> RetRef]]
    /\ UNCHANGED <<flagVars, startCh, chainVars, sideVars, poolVars, nw, cells, newTxs,
                   resubmitAdjustCh, ml, envVars, taskVars>>

\* The caller of pending writes to the state object it was given (the nonce
\* of an account is raised); the write shows in every holder of that object.
pendingMutate ==
    /\ cl.pend.valid
    /\ budget > 0
    /\ budget' = budget - 1
    /\ \E s \in Senders :
          LET st == [cl.pend.state EXCEPT ![s] = @ + 1] IN
          /\ cl' = [cl EXCEPT !.pend.state = st]
          /\ snapshot' = IF snapshot.sref = cl.pend.sref
                         THEN [snapshot EXCEPT !.state = st] ELSE snapshot
          /\ current' = IF EnvRef(current.id) = cl.pend.sref
                        THEN [current EXCEPT !.state = st] ELSE current
    /\ UNCHANGED <<flagVars, startCh, chainVars, sideVars, poolVars, nw, cells, newTxs,
                   resubmitAdjustCh, ml, prefetch, taskVars>>

\* GeneratePendingHeader, run by its caller, up to the uncles: the table is
\* pruned against the given header's number, newTxs is zeroed, and, unless
\* the worker runs without a coinbase or prepareWork fails, the environment
\* is made (hdr.block is its header, not returned yet); prepareWork then
\* ranges over the two uncle pools.
GeneratePendingHeader ==
    /\ cl.gph = "idle"
    /\ budget > 0
    /\ budget' = budget - 1
    /\ \E n \in 0..head : pendingTasks' = clearPending(pendingTasks, n)
    /\ newTxs' = 0
    /\ \E f \in Strikes :
          IF refusesToMine(running, coinbase)
          THEN /\ cl' = [cl EXCEPT !.hdr = [nil |-> TRUE, block |-> NoTask,
                                            err |-> "etherbase not found"]]
               /\ UNCHANGED prefetch
          ELSE IF prepareWorkErr(workParams, f) # "ok"
          THEN /\ cl' = [cl EXCEPT !.hdr = [nil |-> TRUE, block |-> NoTask,
                                            err |-> prepareWorkErr(workParams, f)]]
               /\ UNCHANGED prefetch
          ELSE /\ cl' = [cl EXCEPT !.gph = "uncles",
                                   !.hdr = [NoReply EXCEPT !.block.number = headerNumber(head),
                                                           !.block.parentHash = head]]
               /\ prefetch' = prefetch \cup {newEnvId}
    /\ UNCHANGED <<flagVars, startCh, chainVars, sideVars, poolVars, nw, cells,
                   resubmitAdjustCh, ml, current, snapshot, tl>>

\* GeneratePendingHeader, the rest: the range over the uncle pools ends and
\* the header of a copy of the environment is returned (the environment is
\* not discarded). When the main loop has written a pool during the range,
\* the Go runtime may instead end the process ("concurrent map iteration
\* and map write").
GeneratePendingHeader_uncles ==
    /\ cl.gph \in {"uncles", "raced"}
    /\ \E fatal \in {FALSE} \cup {TRUE : x \in {cl.gph} \cap {"raced"}} :
          cl' = IF fatal
                THEN [cl EXCEPT !.gph = "fatal"]
                ELSE [cl EXCEPT !.gph = "idle", !.hdr.nil = FALSE, !.hdr.err = ""]
    /\ UNCHANGED <<flagVars, startCh, chainVars, sideVars, poolVars, nw, cells, newTxs,
                   resubmitAdjustCh, ml, envVars, taskVars, budget>>

\* The three loops have returned.
Terminated == ml.pc = "done" /\ nw.pc = "done" /\ tl.pc = "done"

\* close: w.wg.Wait() returns.
closeReturns ==
    /\ cl.close = "wait"
    /\ Terminated
    /\ cl' = [cl EXCEPT !.close = "done"]
    /\ UNCHANGED <<flagVars, startCh, chainVars, sideVars, poolVars, nw, cells, newTxs,
                   resubmitAdjustCh, ml, envVars, taskVars, budget>>

\* A commitTransactions batch reports to the resubmit loop: any ratio in
\* [0.1, 1], increase or decrease.
Ratios == {[n |-> 1, d |-> 10], [n |-> 1, d |-> 2], [n |-> 1, d |-> 1]}

Feedback ==
    /\ budget > 0
    /\ budget' = budget - 1
    /\ Len(resubmitAdjustCh) < resubmitAdjustChanSize
    /\ \E r \in Ratios, inc \in BOOLEAN :
          resubmitAdjustCh' = Append(resubmitAdjustCh, [n |-> r.n, d |-> r.d, inc |-> inc])
    /\ UNCHANGED <<flagVars, startCh, chainVars, sideVars, poolVars, nw, cells, newTxs,
                   ml, envVars, taskVars, cl>>

\* A step of one of the three loops.
LoopStep ==
    \/ newWorkLoop_start
    \/ newWorkLoop_chainHead
    \/ newWorkLoop_timer
    \/ newWorkLoop_adjust
    \/ newWorkLoop_sendExit
    \/ newWorkLoop_exit
    \/ newWorkCh_send
    \/ commitWork_prepare
    \/ commitTransactions_iter
    \/ commitTransactions_send
    \/ commit_assemble
    \/ taskCh_send
    \/ commit_exit
    \/ mainLoop_txs
    \/ mainLoop_side
    \/ mainLoop_getWork
    \/ mainLoop_subErr
    \/ mainLoop_exit
    \/ taskLoop_insert
    \/ taskLoop_exit

\* ------------------------------------------------------------ specifications
\* A worker with a coinbase on a chain whose head advances, a pool that
\* receives transactions, and rounds started by start, head and timer.
Pools0 == {[EmptyTxs EXCEPT !["A"] = <<Tx("A", 0, GasOf("A"), "ok")>>]}

Init ==
    InitWith({maxRecommitInterval}, Pools0, {0}, {TRUE}, {{"assemble"}}, {0}, MaxEvents)

Next ==
    \/ start
    \/ startSend
    \/ stop
    \/ ChainHead
    \/ NewTxs
    \/ newWorkLoop_start
    \/ newWorkLoop_chainHead
    \/ newWorkLoop_timer
    \/ newWorkCh_send
    \/ newWorkLoop_adjust
    \/ commitWork_prepare
    \/ commitTransactions_iter
    \/ commit_assemble
    \/ taskCh_send
    \/ taskLoop_insert
    \/ mainLoop_txs

Spec == Init /\ [][Next]_vars


\* ------------------------------------------------------------ SpecRound
\* commitWork rounds under every timing of the signal: work requests reach
\* the main loop with a fresh interrupt cell, and the signal of a later
\* commit of the resubmit loop (new-head or resubmit) is stored in the cell
\* of the request in flight at any point of the round.
newWorkReq ==
    /\ ml.pc = "idle"
    /\ budget > 0
    /\ budget' = budget - 1
    /\ cells' = Append(cells, commitInterruptNone)
    /\ ml' = [MlIdle EXCEPT !.pc = "prepare", !.interrupt = Len(cells) + 1, !.after = "swap"]
    /\ UNCHANGED <<flagVars, startCh, chainVars, sideVars, poolVars, nw, newTxs,
                   resubmitAdjustCh, envVars, taskVars, cl>>

\* atomic.StoreInt32(interrupt, s) on the cell of the request in flight.
storeInterrupt ==
    /\ ml.interrupt # 0
    /\ cells[ml.interrupt] = commitInterruptNone
    /\ \E s \in {commitInterruptNewHead, commitInterruptResubmit} :
          cells' = [cells EXCEPT ![ml.interrupt] = s]
    /\ UNCHANGED <<flagVars, startCh, chainVars, sideVars, poolVars, nw, newTxs,
                   resubmitAdjustCh, ml, envVars, taskVars, cl, budget>>

PoolsRound ==
    {[EmptyTxs EXCEPT !["A"] = <<Tx("A", 0, GasOf("A"), "ok")>>],
     [EmptyTxs EXCEPT !["A"] = <<Tx("A", 0, GasOf("A"), "ok")>>,
                      !["B"] = <<Tx("B", 0, GasOf("B"), "ok")>>],
     [EmptyTxs EXCEPT !["A"] = <<Tx("A", 0, GasOf("A"), "ok"), Tx("A", 1, GasOf("A"), "ok")>>,
                      !["B"] = <<Tx("B", 0, GasOf("B"), "ok")>>]}

InitRound ==
    InitWith({maxRecommitInterval}, PoolsRound, {0}, {TRUE}, {{"assemble"}}, {0}, MaxRoundEvents)

NextRound ==
    \/ start
    \/ ChainHead
    \/ newWorkReq
    \/ storeInterrupt
    \/ newWorkLoop_adjust
    \/ commitWork_prepare
    \/ commitTransactions_iter
    \/ commit_assemble
    \/ taskCh_send
    \/ taskLoop_insert

SpecRound == InitRound /\ [][NextRound]_vars

\* ------------------------------------------------------------ SpecUncle
\* A worker on a chain of three blocks with an empty pool, to which side
\* blocks are announced while rounds are started by start and new heads.
InitUncle ==
    InitWith({maxRecommitInterval}, {EmptyTxs}, {0}, {TRUE}, {{"assemble"}}, {2}, MaxUncleEvents)

NextUncle ==
    \/ start
    \/ ChainHead
    \/ ChainSide
    \/ newWorkLoop_start
    \/ newWorkLoop_chainHead
    \/ newWorkCh_send
    \/ commitWork_prepare
    \/ commit_assemble
    \/ taskCh_send
    \/ taskLoop_insert
    \/ mainLoop_side

SpecUncle == InitUncle /\ [][NextUncle]_vars

\* ------------------------------------------------------------ SpecLong
\* A worker with an empty pool on a chain that grows by more than
\* staleThreshold blocks while tasks are pending.
InitLong ==
    InitWith({maxRecommitInterval}, {EmptyTxs}, {0}, {TRUE}, {{"assemble"}}, {0}, MaxLongEvents)

NextLong ==
    \/ start
    \/ ChainHead
    \/ newWorkLoop_start
    \/ newWorkLoop_chainHead
    \/ newWorkCh_send
    \/ commitWork_prepare
    \/ commit_assemble
    \/ taskCh_send
    \/ taskLoop_insert

SpecLong == InitLong /\ [][NextLong]_vars

\* ------------------------------------------------------------ SpecInterval
\* The resubmit loop alone: any configured interval, then feedback messages
\* and explicit interval changes in any order.
Recommits == {500, 1000, 3000, 15000, 20000}

InitInterval ==
    InitWith(Recommits, {EmptyTxs}, {0}, {TRUE}, {{"assemble"}}, {0}, MaxIntervalEvents)

NextInterval ==
    \/ Feedback
    \/ newWorkLoop_adjust
    \/ newWorkLoop_interval

SpecInterval == InitInterval /\ [][NextInterval]_vars

\* ------------------------------------------------------------ SpecCalls
\* A worker that is started, asked for pending headers and closed.
InitCalls ==
    InitWith({maxRecommitInterval}, Pools0, {0}, {TRUE}, {{"assemble"}}, {0}, MaxCallEvents)

NextCalls ==
    \/ start
    \/ close
    \/ closeReturns
    \/ GeneratePendingHeader
    \/ GeneratePendingHeader_uncles
    \/ newWorkLoop_start
    \/ newWorkLoop_sendExit
    \/ newWorkLoop_exit
    \/ newWorkCh_send
    \/ newWorkLoop_adjust
    \/ commitWork_prepare
    \/ commitTransactions_iter
    \/ commit_assemble
    \/ taskCh_send
    \/ commit_exit
    \/ mainLoop_exit
    \/ taskLoop_insert
    \/ taskLoop_exit

SpecCalls == InitCalls /\ [][NextCalls]_vars

\* ------------------------------------------------------------ SpecFlood
\* A worker with local and remote transactions pending that is started
\* again and again, each start requesting a round, and then closed.
PoolsFlood ==
    {[EmptyTxs EXCEPT !["A"] = <<Tx("A", 0, GasOf("A"), "ok")>>,
                      !["B"] = <<Tx("B", 0, GasOf("B"), "ok")>>]}

InitFlood ==
    InitWith({maxRecommitInterval}, PoolsFlood, {0}, {TRUE}, {{"assemble"}}, {0}, MaxFloodEvents)

NextFlood ==
    \/ start
    \/ startSend
    \/ close
    \/ closeReturns
    \/ newWorkLoop_start
    \/ newWorkLoop_adjust
    \/ newWorkLoop_sendExit
    \/ newWorkLoop_exit
    \/ newWorkCh_send
    \/ commitWork_prepare
    \/ commitTransactions_iter
    \/ commitTransactions_send
    \/ commit_assemble
    \/ taskCh_send
    \/ commit_exit
    \/ mainLoop_exit
    \/ taskLoop_insert
    \/ taskLoop_exit

SpecFlood == InitFlood /\ [][NextFlood]_vars

\* ------------------------------------------------------------ claims under Spec
\* C1 (as stated): once a round has observed the new-head signal in its
\* interrupt cell, its environment is discarded: the main loop does not go
\* on to send it as a task, and neither w.current nor the snapshot changes
\* while that round lasts.
C1_NewHeadDiscards ==
    [][(ml.interrupt # 0 /\ ml.sig = commitInterruptNewHead)
         => /\ ~(ml.pc # "sendTask" /\ ml'.pc = "sendTask")
            /\ current' = current
            /\ snapshot' = snapshot]_vars

\* The transactions, the receipts and tcount of an environment agree.
EnvLengthsAgree(e) == Len(e.txs) = Len(e.receipts) /\ Len(e.txs) = e.tcount

\* C8: in the environment of the round, in w.current, in every task (in
\* commit, with the task loop, in the table) and in the snapshot, the
\* transactions, the receipts and tcount agree in number.
C8_LengthsAgree ==
    /\ EnvLengthsAgree(ml.work)
    /\ EnvLengthsAgree(current)
    /\ \A t \in pendingTasks \cup {ml.task, tl.task} : Len(t.txs) = Len(t.receipts)
    /\ Len(snapshot.txs) = Len(snapshot.receipts)

\* C8 witness: a transaction has been applied and has reached w.current, the
\* snapshot and a pending task.
C8_Witness ==
    /\ current.tcount >= 1
    /\ Len(snapshot.txs) >= 1
    /\ \E t \in pendingTasks : Len(t.txs) >= 1


\* ------------------------------------------------------------ claims under SpecRound
CountTrue(q) == Len(SelectSeq(q, LAMBDA x : x))

\* C3 (as stated): when the filling of a round with an interrupt cell has
\* ended, a round that saw the resubmit signal has sent exactly one
\* adjust{inc:true}, and a round that saw no signal exactly one
\* adjust{inc:false} and nothing else.
C3_OneFeedbackPerRound ==
    (ml.interrupt # 0 /\ ml.pc \in {"commit", "sendTask"})
      => /\ ml.sig = commitInterruptResubmit => CountTrue(ml.msgs) = 1
         /\ ml.sig = commitInterruptNone => ml.msgs = <<FALSE>>

\* The feedback the batches of a round owe: none for a batch that ended on
\* new-head, inc:true for one that ended on resubmit, inc:false otherwise.
FeedbackOwed(batches) ==
    LET b == SelectSeq(batches, LAMBDA x : x.sig # commitInterruptNewHead) IN
    [i \in 1..Len(b) |-> b[i].sig = commitInterruptResubmit]

\* C3 (amended): each commitTransactions batch of a round (one per non-empty
\* group, local then remote, so at most two) sends exactly one message
\* unless it ends on new-head: inc:true when it ends on the resubmit signal,
\* inc:false when it ends without a signal.
C3_OneFeedbackPerBatch ==
    ml.interrupt # 0 => (ml.msgs = FeedbackOwed(ml.batches) /\ Len(ml.batches) <= 2)

\* C3 witness: a round whose local and remote batch both ended on the
\* resubmit signal, each sending an adjust{inc:true}.
C3_Witness ==
    /\ ml.pc = "commit"
    /\ ml.sig = commitInterruptResubmit
    /\ ml.msgs = <<TRUE, TRUE>>

\* C9: a batch returns true exactly when it ended on the new-head signal
\* (false on resubmit and on a normal end), and the header prepareWork
\* builds has the chain's current head as parent and its number + 1.
C9_ReturnAndParent ==
    /\ [](\A i \in 1..Len(ml.batches) :
             ml.batches[i].ret = (ml.batches[i].sig = commitInterruptNewHead))
    /\ [][(ml.pc = "prepare" /\ ml'.pc \notin {"prepare", "idle"})
            => (ml'.work.parentHash = head /\ ml'.work.number = head + 1)]_vars

\* C9 witness: a round built on a head that arrived after construction has
\* had a batch return true on new-head.
C9_Witness ==
    /\ ml.work.parentHash >= 1
    /\ ml.work.parentHash = head
    /\ \E i \in 1..Len(ml.batches) :
          ml.batches[i].sig = commitInterruptNewHead /\ ml.batches[i].ret

\* C10 (as stated): the round of a running worker that saw the resubmit
\* signal ends with the task loop holding a task of exactly the
\* transactions applied when the signal was seen.
C10_ResubmitHandsOver ==
    [][(ml.sig = commitInterruptResubmit /\ running /\ ml.pc # "idle" /\ ml'.pc = "idle")
         => (tl'.pc = "insert" /\ tl'.task.txs = ml.txsAtSig)]_vars

\* C10 (amended): after the resubmit signal is seen no further transaction
\* is applied in the round; the task commit assembles (worker running,
\* engine succeeding) holds exactly the transactions applied by then, and it
\* is handed to the task loop unless the worker is shut down first.
C10_ResubmitStopsFilling ==
    /\ [](ml.sig = commitInterruptResubmit => ml.work.txs = ml.txsAtSig)
    /\ [][(ml.sig = commitInterruptResubmit /\ ml.pc = "commit" /\ ml'.pc = "sendTask")
            => (ml'.task.txs = ml.txsAtSig /\ ml'.task.receipts = ml.work.receipts)]_vars
    /\ [][(ml.sig = commitInterruptResubmit /\ ml.pc = "sendTask" /\ ml'.pc = "idle"
             /\ ~exitClosed)
            => (tl'.pc = "insert" /\ tl'.task = ml.task)]_vars

\* C10 witness: a running worker's round stopped by resubmit after one
\* transaction, with more pending, its task ready for the idle task loop.
C10_Witness ==
    /\ ml.sig = commitInterruptResubmit
    /\ ml.pc = "sendTask"
    /\ tl.pc = "idle"
    /\ Len(ml.task.txs) = 1
    /\ Len(pool["A"]) + Len(pool["B"]) > 1

\* ------------------------------------------------------------ claims under SpecUncle
\* The four admission rules of an uncle relative to an environment, and the
\* bound on their number.
UnclesAdmitted(e) ==
    /\ Cardinality(e.uncles) <= maxUncles
    /\ Cardinality(UncleHashes(e)) = Cardinality(e.uncles)
    /\ \A u \in e.uncles :
          /\ u.parent # e.parentHash
          /\ u.parent \in e.ancestors
          /\ u.hash \notin e.family

\* C7: every environment (the one a round works on, the worker's current
\* one) has at most two uncles, each of which appears once and satisfies
\* the admission rules relative to it; tasks and the snapshot made of
\* environments carry at most two uncles.
C7_UnclesAdmitted ==
    /\ UnclesAdmitted(ml.work)
    /\ UnclesAdmitted(current)
    /\ \A t \in pendingTasks \cup {ml.task, tl.task} : Cardinality(t.uncles) <= maxUncles
    /\ Cardinality(snapshot.uncles) <= maxUncles

\* C7 witness: the current environment has two uncles while the pools hold
\* a third candidate, a sibling of the block being built.
C7_Witness ==
    /\ Cardinality(current.uncles) = maxUncles
    /\ \E b \in localUncles \cup remoteUncles :
          b \notin current.uncles /\ b.parent = current.parentHash

C4_IntervalInRange ==
    nw.minRecommit <= nw.recommit /\ nw.recommit <= maxRecommitInterval

\* C17: before any feedback or interval change, the resubmit interval is
\* the configured one clamped into [minRecommitInterval, maxRecommitInterval].
C17_InitialIntervalClamped ==
    budget = MaxIntervalEvents
       => nw.recommit = Min(Max(nw.config, minRecommitInterval), maxRecommitInterval)

\* ------------------------------------------------------------ claims under SpecCalls
\* C6: once the three loops have returned, no environment made by makeEnv
\* is left with its prefetcher running.
C6_AllDiscarded ==
    Terminated => prefetch = {}

\* ------------------------------------------------------------ claims under SpecFlood
\* C23 as stated: whenever the resubmit timer fires and no resubmit commit is
\* issued, the timer is re-armed, so it is armed again after every fire.
C23_TimerRearmed ==
    [][(newWorkLoop_timer /\ nw'.pc = "idle") => nw'.timer = "armed"]_vars

\* C23: when the resubmit timer fires and no resubmit commit is issued, the
\* timer is re-armed exactly when the worker is running (the fire found no new
\* transaction); a fire on a stopped worker leaves it unarmed, and it is the
\* next commit, whatever triggers it, that arms it again.
C23_TimerRearmedWhenRunning ==
    /\ [][(newWorkLoop_timer /\ nw'.pc = "idle")
            => (nw'.timer = "armed" <=> running)]_vars
    /\ [][newWorkCh_send => nw'.timer = "armed"]_vars

\* A round has run, so the timer was armed, and it has since fired on a
\* stopped worker: the resubmit loop is back in its select with no timer.
C23_Witness ==
    /\ ~running
    /\ current.id # 0
    /\ nw.pc = "idle"
    /\ nw.timer = "off"

\* C22: before close, the main loop is never blocked in its feedback send
\* on the full resubmitAdjustCh while the resubmit loop is blocked in its
\* send on newWorkCh.
C22_NoMutualBlock ==
    ~exitClosed
       => ~(/\ ml.pc = "sendAdj"
            /\ Len(resubmitAdjustCh) = resubmitAdjustChanSize
            /\ nw.pc = "send")

\* C2: once exitCh is closed, the loops have all returned or one of them
\* can still take a step.
C2_CloseTerminates ==
    exitClosed => (Terminated \/ ENABLED LoopStep)

\* ------------------------------------------------------------ more claims under SpecRound
\* The transactions of a list that remote senders sent.
RemoteIn(txs) == {i \in 1..Len(txs) : txs[i].from \notin Locals}

\* C15: in a commitWork round the local batch comes first: while it runs
\* only transactions of local senders are offered and applied, in the
\* round's environment no local transaction follows a remote one, a batch
\* that returned true is the last one, and after a local batch returned
\* true no remote transaction is in the environment.
C15_LocalsFirst ==
    /\ ml.phase = "local"
          => /\ RemoteIn(ml.work.txs) = {}
             /\ \A s \in NonEmptySenders(ml.txs) : s \in Locals
    /\ ml.phase = "remote" => \A s \in NonEmptySenders(ml.txs) : s \notin Locals
    /\ \A i \in RemoteIn(ml.work.txs) : \A j \in i..Len(ml.work.txs) : j \in RemoteIn(ml.work.txs)
    /\ \A i \in 1..Len(ml.batches) :
          ml.batches[i].ret
             => /\ i = Len(ml.batches)
                /\ ml.pc \notin {"batch", "sendAdj"}
                /\ (i = 1 /\ NonEmptySenders(localTxs(pool)) # {})
                      => RemoteIn(ml.work.txs) = {}

\* A round has applied a remote transaction after its local batch.
C15_Witness ==
    /\ Len(ml.batches) >= 1
    /\ ~ml.batches[1].ret
    /\ Len(ml.work.txs) = 2
    /\ ml.work.txs[1].from \in Locals
    /\ ml.work.txs[2].from \notin Locals

\* ------------------------------------------------------------ more claims under SpecCalls
\* C16: at most one stop channel of the task loop is open, and it is the
\* one in hand; no stop channel is closed twice; a task received (with the
\* seal hash of the previous one or not) leaves exactly the newly made
\* channel open; and when the task loop has returned none is open.
C16_OneStopChannel ==
    /\ [](Cardinality(tl.open) <= 1)
    /\ [](tl.open = IF tl.stopCh = 0 THEN {} ELSE {tl.stopCh})
    /\ [](~tl.closedTwice)
    /\ [](tl.pc = "done" => tl.open = {})
    /\ [][(tl.pc = "idle" /\ tl'.pc = "insert")
             => (tl'.stopCh # 0 /\ tl'.open = {tl'.stopCh})]_vars

\* The task loop has received two tasks of one seal hash and has returned.
C16_Witness ==
    /\ tl.pc = "done"
    /\ tl.got = 2
    /\ Cardinality(pendingTasks) = 1
    /\ tl.open = {}

\* ------------------------------------------------------------ SpecEmpty
\* A worker with a coinbase, an empty pool and no side blocks on a chain
\* whose head stays at N, whose collaborators do not fail, and that is
\* started (the init flag of newWorker given or not).
InitEmpty ==
    InitWith({maxRecommitInterval}, {EmptyTxs}, {0, 1}, {TRUE}, {{}}, {0, 1, 2},
             MaxEmptyEvents)

NextEmpty ==
    \/ start
    \/ startSend
    \/ newWorkLoop_start
    \/ newWorkLoop_timer
    \/ newWorkCh_send
    \/ commitWork_prepare
    \/ commit_assemble
    \/ taskCh_send
    \/ taskLoop_insert

SpecEmpty == InitEmpty /\ [][NextEmpty]_vars

\* The calls of start made so far (every event of SpecEmpty is one).
Started == MaxEmptyEvents - budget

\* Every start has been served: no token is queued, no request is in
\* flight and the three loops wait in their selects.
Quiet ==
    /\ cl.start = "idle"
    /\ startCh = 0
    /\ nw.pc = "idle"
    /\ ml.pc = "idle"
    /\ tl.pc = "idle"

\* The tasks the task loop holds or has recorded.
TasksSeen == pendingTasks \cup (IF tl.pc = "insert" THEN {tl.task} ELSE {})

InitGet ==
    InitWith({maxRecommitInterval}, Pools0, {0, 1}, BOOLEAN, {{"sub", "assemble"}}, {1},
             MaxGetEvents)

NextGet ==
    \/ start
    \/ close
    \/ closeReturns
    \/ getSealingBlock
    \/ getSealingBlock_result
    \/ getSealingBlock_exit
    \/ GeneratePendingHeader
    \/ GeneratePendingHeader_uncles
    \/ newWorkLoop_start
    \/ newWorkLoop_sendExit
    \/ newWorkLoop_exit
    \/ newWorkCh_send
    \/ newWorkLoop_adjust
    \/ commitWork_prepare
    \/ commitTransactions_iter
    \/ commit_assemble
    \/ taskCh_send
    \/ commit_exit
    \/ mainLoop_getWork
    \/ mainLoop_subErr
    \/ mainLoop_exit
    \/ taskLoop_insert
    \/ taskLoop_exit

SpecGet == InitGet /\ [][NextGet]_vars

\* ------------------------------------------------------------ claims under SpecGet
\* C12: a caller of getSealingBlock that waits in its select can be served:
\* the main loop has not returned, or exitCh is closed.
C12_CallerServed ==
    cl.gen = "send" => (ml.pc # "done" \/ exitClosed)

\* C13: when the main loop takes a getSealingBlock request whose timestamp
\* is not after the head's time, it replies nil with an error, leaves the
\* current environment, the snapshot and the pending tasks as they are and
\* is back in its select; the caller returns that reply.
C13_BadTimestampRejected ==
    [][/\ (cl.gen = "send" /\ cl'.gen = "recv" /\ blockTime(head) >= cl.req.timestamp)
          => /\ cl'.reply.nil
             /\ cl'.reply.err \in {"invalid timestamp", "missing parent"}
             /\ current' = current
             /\ snapshot' = snapshot
             /\ pendingTasks' = pendingTasks
             /\ prefetch' = prefetch
             /\ ml'.pc = "idle"
       /\ (cl.gen = "recv" /\ cl'.gen = "idle") => cl'.ret = cl.reply]_vars

\* The call has returned "invalid timestamp" and the main loop is in a
\* later round.
C13_Witness ==
    /\ cl.gen = "idle"
    /\ cl.ret.nil
    /\ cl.ret.err = "invalid timestamp"
    /\ ml.pc = "commit"

C18_Unwinds ==
    ml.pc = "done" => exitClosed

\* ------------------------------------------------------------ SpecRace
\* A started worker on a three-block chain that is told of side blocks
\* while callers ask for the pending header.
InitRace ==
    InitWith({maxRecommitInterval}, {EmptyTxs}, {0}, {TRUE}, {{}}, {2}, MaxRaceEvents)

NextRace ==
    \/ start
    \/ ChainSide
    \/ GeneratePendingHeader
    \/ GeneratePendingHeader_uncles
    \/ newWorkLoop_start
    \/ newWorkCh_send
    \/ commitWork_prepare
    \/ commit_assemble
    \/ taskCh_send
    \/ taskLoop_insert
    \/ mainLoop_side

SpecRace == InitRace /\ [][NextRace]_vars

\* C19: while a caller's thread is in prepareWork's range over the uncle
\* pools, the pools are not written.
C19_PoolsMainLoopOnly ==
    [][cl.gph = "uncles" => UNCHANGED <<localUncles, remoteUncles>>]_vars

\* ------------------------------------------------------------ SpecFault
\* A started worker with a coinbase whose chain advances and whose pool
\* grows, while the collaborators of prepareWork fail and recover.
InitFault ==
    InitWith({maxRecommitInterval}, Pools0, {0}, {TRUE}, {{}}, {0}, MaxFaultEvents)

NextFault ==
    \/ start
    \/ ChainHead
    \/ NewTxs
    \/ Fault
    \/ Heal
    \/ newWorkLoop_start
    \/ newWorkLoop_chainHead
    \/ newWorkLoop_timer
    \/ newWorkCh_send
    \/ newWorkLoop_adjust
    \/ commitWork_prepare
    \/ commitTransactions_iter
    \/ commit_assemble
    \/ taskCh_send
    \/ taskLoop_insert
    \/ mainLoop_txs

SpecFault == InitFault /\ [][NextFault]_vars

InitPending ==
    InitWith({maxRecommitInterval}, Pools0, {1}, {TRUE}, {{}}, {0}, MaxPendEvents)

NextPending ==
    \/ NewTxs
    \/ pending
    \/ pendingMutate
    \/ newWorkLoop_start
    \/ newWorkLoop_timer
    \/ newWorkCh_send
    \/ newWorkLoop_adjust
    \/ commitWork_prepare
    \/ commitTransactions_iter
    \/ commit_assemble
    \/ mainLoop_txs

SpecPending == InitPending /\ [][NextPending]_vars

\* C21: the state object of the snapshot is no environment's, the object a
\* caller of pending holds is neither the snapshot's nor an environment's;
\* a write of the caller to its object changes neither the snapshot nor the
\* current environment; and a change of the current environment changes
\* neither what a caller holds nor the snapshot, other than by publishing
\* a new one.
C21_SnapshotIndependent ==
    /\ [](snapshot.valid => snapshot.sref \in {SnapRef(1), SnapRef(2)})
    /\ [](cl.pend.valid
            => cl.pend.sref \notin {snapshot.sref, EnvRef(current.id), EnvRef(ml.work.id)})
    /\ [][(cl.pend.valid /\ cl'.pend.state # cl.pend.state)
             => (snapshot' = snapshot /\ current' = current)]_vars
    /\ [][(current.id # 0 /\ current'.id = current.id /\ current' # current)
             => /\ cl'.pend = cl.pend
                /\ snapshot' \in {snapshot, updateSnapshot(current')}]_vars

\* A caller holds a state it took from the snapshot and has written to,
\* and the current environment has taken a transaction since.
C21_Witness ==
    /\ cl.pend.valid
    /\ cl.pend.state["A"] = 1
    /\ cl.pend.state["B"] = 1
    /\ snapshot.state["B"] = 0
    /\ Len(current.txs) = 2
    /\ Len(snapshot.txs) = 2

\* ------------------------------------------- new-transactions events (C24)
\* The stopped worker's block is full: the current environment exists and
\* its gas pool cannot pay for one more transaction.
BlockFull == current.id # 0 /\ current.gasPool # NoGasPool /\ current.gasPool < TxGas

\* C24 as stated: every new-transactions event handled by the main loop adds
\* the number of its transactions to newTxs, whether or not the worker is
\* running, current exists or the current gas pool is below the base gas.
C24_EveryEventCounted ==
    [][mainLoop_txs => newTxs' = newTxs + Len(Head(txsCh))]_vars

\* C24: a new-transactions event handled by the main loop adds the number of
\* its transactions to newTxs, except on a stopped worker whose current block
\* is full: that event is dropped, leaving newTxs, the current environment and
\* the snapshot as they were.
C24_EventCountedUnlessFull ==
    [][mainLoop_txs
         => IF ~running /\ BlockFull
            THEN newTxs' = newTxs /\ current' = current /\ snapshot' = snapshot
            ELSE newTxs' = newTxs + Len(Head(txsCh))]_vars

\* One round has run on the stopped worker and three events for A's second
\* to fourth transaction were handled after it: two filled the block and were
\* counted, the third met the full block and was not.
C24_Witness ==
    /\ ~running
    /\ current.id = 1
    /\ BlockFull
    /\ Len(pool["A"]) = 4
    /\ txsCh = <<>>
    /\ newTxs = 2

\* --------------------------------------------------- interrupt cells (C25)
\* C25: an interrupt cell, once non-zero, is never written again and cells
\* are never dropped; when a work request is sent on newWorkCh its own cell
\* is zero and the cell of every earlier request is non-zero; hence at most
\* one cell is zero at any time, so at most one issued round is unsignalled.
C25_CellsWrittenOnce ==
    /\ [][/\ Len(cells') >= Len(cells)
          /\ \A i \in 1..Len(cells) : cells[i] # commitInterruptNone => cells'[i] = cells[i]]_vars
    /\ [][newWorkCh_send
            => /\ cells[nw.interrupt] = commitInterruptNone
               /\ \A i \in 1..(nw.interrupt - 1) : cells[i] # commitInterruptNone]_vars
    /\ [](Cardinality({i \in 1..Len(cells) : cells[i] = commitInterruptNone}) <= 1)

\* The main loop works on the second request, whose cell is zero, while the
\* first request's cell holds the signal stored before the second was sent.
C25_Witness ==
    /\ ml.pc # "idle"
    /\ ml.interrupt = 2
    /\ Len(cells) = 2
    /\ cells[1] # commitInterruptNone
    /\ cells[2] = commitInterruptNone

\* --------------------------------------------------- side-block pools (C26)
\* The hashes of the side blocks pooled as local or as remote.
Pooled == {u.hash : u \in localUncles \cup remoteUncles}

\* C26: a chain-side event whose hash is already pooled changes neither pool
\* nor the current environment and starts no commit; an event with a new hash
\* puts the block in the local pool exactly when isLocalBlock holds for it and
\* in the remote pool otherwise; no hash is ever in both pools.
C26_SidePools ==
    /\ [][mainLoop_side
            => LET b == Head(chainSideCh) IN
               IF b.hash \in Pooled
               THEN /\ localUncles' = localUncles
                    /\ remoteUncles' = remoteUncles
                    /\ current' = current
                    /\ ml' = ml
               ELSE /\ localUncles' = (IF b.local THEN localUncles \cup {b} ELSE localUncles)
                    /\ remoteUncles' = (IF b.local THEN remoteUncles ELSE remoteUncles \cup {b})]_vars
    /\ []({u.hash : u \in localUncles} \cap {u.hash : u \in remoteUncles} = {})
    /\ [](\A u \in localUncles : u.local)
    /\ [](\A u \in remoteUncles : ~u.local)

\* One start and three side events, all handled: a local and a remote block
\* are pooled and the third event repeated one of them.
C26_Witness ==
    /\ running
    /\ head = 2
    /\ budget = 0
    /\ startCh = 0
    /\ cl.start = "idle"
    /\ Len(cells) = 1
    /\ chainSideCh = <<>>
    /\ Cardinality(localUncles) = 1
    /\ Cardinality(remoteUncles) = 1

\* ------------------------------------------------------------ SpecSide
\* A worker on a chain of three blocks with an empty pool that is started,
\* stopped and closed while side blocks are announced; the engine may fail
\* to assemble a block.
InitSide ==
    InitWith({maxRecommitInterval}, {EmptyTxs}, {0}, {TRUE}, {{"assemble"}}, {2}, MaxSideEvents)

NextSide ==
    \/ start
    \/ stop
    \/ close
    \/ closeReturns
    \/ ChainSide
    \/ newWorkLoop_start
    \/ newWorkLoop_sendExit
    \/ newWorkLoop_exit
    \/ newWorkCh_send
    \/ commitWork_prepare
    \/ commit_assemble
    \/ taskCh_send
    \/ commit_exit
    \/ mainLoop_side
    \/ mainLoop_exit
    \/ taskLoop_insert
    \/ taskLoop_exit

SpecSide == InitSide /\ [][NextSide]_vars

\* ------------------------------------------------ side-block commits (C27)
\* The main loop is inside the commit made for a side block (the commit of a
\* commitWork round is followed by the swap of the environment).
SideCommit == ml.pc \in {"commit", "sendTask"} /\ ml.after = "none"

\* The side block at the head of chainSideCh is admitted as an uncle of the
\* current environment by a running worker.
SideAdmitted ==
    /\ running
    /\ current.id # 0
    /\ Cardinality(current.uncles) < maxUncles
    /\ commitUncleErr(current, Head(chainSideCh)) = "ok"

\* What C27 says of the handling of a side block not yet pooled: the commit
\* is entered exactly when the block is admitted, with the block among the
\* uncles of the current environment and of the copy committed; otherwise the
\* environment keeps its uncles and no commit is entered.
SideHandled ==
    (mainLoop_side /\ Head(chainSideCh).hash \notin Pooled)
       => IF SideAdmitted
          THEN /\ current'.uncles = current.uncles \cup {Head(chainSideCh)}
               /\ ml'.pc = "commit"
               /\ ml'.work.uncles = current'.uncles
          ELSE current' = current /\ ml' = ml

\* C27 as stated: on a side block not yet pooled a new task is sent exactly
\* when the worker is running, the current environment exists with fewer than
\* two uncles and commitUncle accepts; so every commit entered for a side
\* block ends by handing its task, which holds the uncle, to the task loop.
C27_TaskIffAdmitted ==
    /\ [][SideHandled]_vars
    /\ [][(SideCommit /\ ml'.pc = "idle")
            => (tl' # tl /\ tl'.task.uncles = UncleHashes(ml.work))]_vars

\* C27: on a side block not yet pooled the commit is entered exactly when the
\* worker is running, the current environment exists with fewer than two
\* uncles and commitUncle accepts; otherwise the uncle set is unchanged and no
\* task is sent. A task sent by that commit holds the uncle. The commit ends
\* without a task only if the worker was stopped or closed meanwhile or the
\* engine failed to assemble the block.
C27_TaskIfAdmittedAndAssembled ==
    /\ [][SideHandled]_vars
    /\ [][(SideCommit /\ taskCh_send) => tl'.task.uncles = UncleHashes(ml.work)]_vars
    /\ [][(SideCommit /\ ml'.pc = "idle" /\ tl' = tl)
            => \/ ~running
               \/ exitClosed
               \/ ml.pc = "commit" /\ "assemble" \in faulty]_vars
    /\ [](SideCommit => ml.work.uncles = current.uncles /\ ml.work.uncles # {})

\* One round has run and the task loop has received a second task, made by
\* the commit for a side block: it holds the uncle of the current
\* environment.
C27_Witness ==
    /\ Len(cells) = 1
    /\ tl.got = 2
    /\ Cardinality(tl.task.uncles) = 1
    /\ tl.task.uncles = UncleHashes(current)

\* ------------------------------------------------------------ SpecCommitUncle
\* commitUncle as a function of its arguments: the environment is drawn from
\* the environments over two parents, two known ancestors, two family
\* hashes and up to two uncles with distinct hashes, the header from the
\* side blocks over the same hashes and parents. The environment is kept in
\* current, the header at the head of chainSideCh, the error returned in
\* cl.ret.err.
UncleInputs ==
    {[hash |-> h, parent |-> p, local |-> TRUE] :
        h \in {SideHashBase, SideHashBase + 1}, p \in 0..1}

EnvInputs ==
    {[NilEnv EXCEPT !.id = 1, !.parentHash = p, !.number = p + 1,
                    !.ancestors = a, !.family = f, !.uncles = us] :
        p \in 0..1, a \in SUBSET (0..1),
        f \in SUBSET {SideHashBase, SideHashBase + 1},
        us \in {x \in SUBSET UncleInputs :
                  Cardinality({u.hash : u \in x}) = Cardinality(x)}}

InitCommitUncle ==
    /\ running = FALSE
    /\ exitClosed = FALSE
    /\ coinbase = TRUE
    /\ faulty = {}
    /\ startCh = 0
    /\ head = 0
    /\ included = {}
    /\ chainHeadCh = <<>>
    /\ \E u \in UncleInputs : chainSideCh = <<u>>
    /\ txsCh = <<>>
    /\ pool = EmptyTxs
    /\ nw = [pc |-> "idle", interrupt |-> 0, noempty |-> FALSE,
             recommit |-> sanitize(maxRecommitInterval),
             minRecommit |-> sanitize(maxRecommitInterval),
             timer |-> "off", pruned |-> FALSE, init |-> 0,
             config |-> maxRecommitInterval]
    /\ cells = <<>>
    /\ newTxs = 0
    /\ resubmitAdjustCh = <<>>
    /\ ml = MlIdle
    /\ current \in EnvInputs
    /\ snapshot = NoSnapshot
    /\ localUncles = {}
    /\ remoteUncles = {}
    /\ tl = [pc |-> "idle", task |-> NoTask, stopCh |-> 0, open |-> {},
             closedTwice |-> FALSE, got |-> 0]
    /\ pendingTasks = {}
    /\ prefetch = {}
    /\ cl = [start |-> "idle", close |-> "idle", gen |-> "idle", req |-> workParams,
             reply |-> NoReply, ret |-> NoReply, gph |-> "idle", hdr |-> NoReply,
             pend |-> NoPending, mu |-> "free", arg |-> TRUE]
    /\ budget = MaxUncleCalls

\* w.commitUncle(env, uncle)
commitUncle_call ==
    /\ budget > 0
    /\ budget' = budget - 1
    /\ current' = commitUncle(current, Head(chainSideCh))
    /\ cl' = [cl EXCEPT !.ret.err = commitUncleErr(current, Head(chainSideCh))]
    /\ UNCHANGED <<flagVars, startCh, chainVars, sideVars, poolVars, nw, cells, newTxs,
                   resubmitAdjustCh, ml, snapshot, prefetch, taskVars>>

NextCommitUncle == commitUncle_call

SpecCommitUncle == InitCommitUncle /\ [][NextCommitUncle]_vars

\* ------------------------------------------------------- commitUncle (C28)
\* C28: commitUncle reports "uncle not unique" exactly when the hash is among
\* the environment's uncles, else "uncle is sibling" exactly when the parents
\* are equal, else "uncle's parent unknown" exactly when the parent is not an
\* ancestor, else "uncle already included" exactly when the hash is in the
\* family; a rejection leaves the environment as it was, an acceptance adds
\* exactly that header to the uncles and changes nothing else.
C28_RulesInOrder ==
    [][commitUncle_call
         => LET u == Head(chainSideCh)
                err == cl'.ret.err
                r1 == u.hash \in {x.hash : x \in current.uncles}
                r2 == current.parentHash = u.parent
                r3 == u.parent \notin current.ancestors
                r4 == u.hash \in current.family
            IN /\ err = "uncle not unique" <=> r1
               /\ err = "uncle is sibling" <=> (~r1 /\ r2)
               /\ err = "uncle's parent unknown" <=> (~r1 /\ ~r2 /\ r3)
               /\ err = "uncle already included" <=> (~r1 /\ ~r2 /\ ~r3 /\ r4)
               /\ err = "ok" <=> (~r1 /\ ~r2 /\ ~r3 /\ ~r4)
               /\ err # "ok" => current' = current
               /\ err = "ok" => current' = [current EXCEPT !.uncles = @ \cup {u}]]_vars

\* A header that breaks the sibling, the parent and the family rule at once
\* was rejected as a sibling.
C28_Witness ==
    /\ cl.ret.err = "uncle is sibling"
    /\ Head(chainSideCh).parent \notin current.ancestors
    /\ Head(chainSideCh).hash \in current.family
    /\ Cardinality(current.uncles) = 1

\* ------------------------------------------------------------ SpecBatch
\* commitTransactions(env, txs, nil) as a function of its arguments. The
\* environment is drawn over the gas limits up to BlockGasLimit and the
\* account nonces 5..7 of A and 0..1 of B; the transactions are runs of
\* consecutive nonces, A's starting at 5..7 (up to three, each supported or
\* not), B's at 0 (up to two). The environment as passed is kept in current,
\* the transactions as passed in pool; the loop works on ml.work and ml.txs.
RECURSIVE TxRuns(_, _, _)
TxRuns(s, from, n) ==
    IF n = 0 THEN {<<>>}
    ELSE {<<Tx(s, from, GasOf(s), k)>> \o r :
             k \in (IF s = "A" THEN {"ok", "unsupported"} ELSE {"ok"}),
             r \in TxRuns(s, from + 1, n - 1)}

BatchTxs ==
    {[A |-> a, B |-> b] :
        a \in UNION {TxRuns("A", f, n) : f \in 5..7, n \in 0..3},
        b \in UNION {TxRuns("B", 0, n) : n \in 0..2}}

BatchEnvs ==
    {[NilEnv EXCEPT !.id = 1, !.number = 1, !.gasLimit = g, !.state = [A |-> na, B |-> nb]] :
        g \in 1..BlockGasLimit, na \in 5..7, nb \in 0..1}

InitBatchWith(txsets, envs) ==
    /\ running = FALSE
    /\ exitClosed = FALSE
    /\ coinbase = TRUE
    /\ faulty = {}
    /\ startCh = 0
    /\ head = 0
    /\ included = {}
    /\ chainHeadCh = <<>>
    /\ chainSideCh = <<>>
    /\ txsCh = <<>>
    /\ pool \in txsets
    /\ nw = [pc |-> "idle", interrupt |-> 0, noempty |-> FALSE,
             recommit |-> sanitize(maxRecommitInterval),
             minRecommit |-> sanitize(maxRecommitInterval),
             timer |-> "off", pruned |-> FALSE, init |-> 0,
             config |-> maxRecommitInterval]
    /\ cells = <<>>
    /\ newTxs = 0
    /\ resubmitAdjustCh = <<>>
    /\ current \in envs
    /\ ml = [MlIdle EXCEPT !.pc = "batch", !.work = withGasPool(current), !.txs = pool]
    /\ snapshot = NoSnapshot
    /\ localUncles = {}
    /\ remoteUncles = {}
    /\ tl = [pc |-> "idle", task |-> NoTask, stopCh |-> 0, open |-> {},
             closedTwice |-> FALSE, got |-> 0]
    /\ pendingTasks = {}
    /\ prefetch = {}
    /\ cl = [start |-> "idle", close |-> "idle", gen |-> "idle", req |-> workParams,
             reply |-> NoReply, ret |-> NoReply, gph |-> "idle", hdr |-> NoReply,
             pend |-> NoPending, mu |-> "free", arg |-> TRUE]
    /\ budget = 0

InitBatch == InitBatchWith(BatchTxs, BatchEnvs)

NextBatch == commitTransactions_iter

SpecBatch == InitBatch /\ [][NextBatch]_vars

\* ------------------------------------------- transaction errors (C29, C30)
\* A pass of the loop that executes the transaction at the head.
IterStep == ml.pc = "batch" /\ ~loopBreaks(ml.work, ml.txs) /\ commitTransactions_iter

\* The batch has run to its end.
BatchDone == ml.pc = "commit"

\* The transactions of sender s the environment holds.
TxsOf(env, s) == SelectSeq(env.txs, LAMBDA t : t.from = s)

\* C29: a transaction that fails with ErrNonceTooLow is skipped and the same
\* sender's next one is shifted in; tcount, txs and receipts grow together,
\* by one for a transaction applied and not at all otherwise; a sender with
\* nonces 5, 6, 7 pending and account nonce 6 gets 5 skipped and 6 and 7
\* applied.
C29_LowNonceShifts ==
    /\ [][IterStep
            => LET tx == Peek(ml.txs)
                   err == ApplyErr(ml.work, tx)
                   n == IF err = "ok" THEN 1 ELSE 0
               IN /\ err = "NonceTooLow"
                       => /\ ml'.txs = [ml.txs EXCEPT ![tx.from] = Tail(@)]
                          /\ ml'.work = ml.work
                  /\ ml'.work.tcount = ml.work.tcount + n
                  /\ Len(ml'.work.txs) = Len(ml.work.txs) + n
                  /\ Len(ml'.work.receipts) = Len(ml.work.receipts) + n
                  /\ err = "ok" => ml'.work.txs = Append(ml.work.txs, tx)]_vars
    /\ []((/\ BatchDone
           /\ pool["A"] = <<Tx("A", 5, GasOf("A"), "ok"), Tx("A", 6, GasOf("A"), "ok"),
                            Tx("A", 7, GasOf("A"), "ok")>>
           /\ current.state["A"] = 6
           /\ current.gasLimit >= 2 * GasOf("A"))
             => /\ TxsOf(ml.work, "A") = <<Tx("A", 6, GasOf("A"), "ok"), Tx("A", 7, GasOf("A"), "ok")>>
                /\ ml.work.tcount = Len(ml.work.txs)
                /\ ml.work.tcount = Len(ml.work.receipts))

\* A's nonces 5, 6, 7 met account nonce 6 and B had nothing pending: the
\* batch is done with two transactions applied.
C29_Witness ==
    /\ BatchDone
    /\ pool["A"] = <<Tx("A", 5, GasOf("A"), "ok"), Tx("A", 6, GasOf("A"), "ok"),
                     Tx("A", 7, GasOf("A"), "ok")>>
    /\ pool["B"] = <<>>
    /\ current.state["A"] = 6
    /\ ml.work.tcount = 2
    /\ ml.work.state["A"] = 8

RECURSIVE ReplayRuns(_, _, _)
ReplayRuns(s, from, n) ==
    IF n = 0 THEN {<<>>}
    ELSE {<<Tx(s, from, GasOf(s), k)>> \o r :
             k \in {"ok", "protected"}, r \in ReplayRuns(s, from + 1, n - 1)}

ReplayTxs ==
    {[A |-> a, B |-> b] :
        a \in UNION {ReplayRuns("A", 5, n) : n \in 0..2},
        b \in UNION {ReplayRuns("B", 0, n) : n \in 0..1}}

ReplayEnvs ==
    {[NilEnv EXCEPT !.id = 1, !.number = k, !.parentHash = k - 1, !.gasLimit = g,
                    !.state = [A |-> na, B |-> 0]] :
        k \in (EIP155Block - 1)..(EIP155Block + 1), g \in 2..BlockGasLimit, na \in 5..6}

InitReplay == InitBatchWith(ReplayTxs, ReplayEnvs)

NextReplay == commitTransactions_iter

SpecReplay == InitReplay /\ [][NextReplay]_vars

\* ------------------------------------------------- replay protection (C31)
\* C31 as stated: a transaction that is not replay-protected is skipped (its
\* sender popped, nothing executed) when the chain requires replay protection
\* at the header's number; a replay-protected one is executed in that case.
C31_UnprotectedSkipped ==
    [][IterStep
         => LET tx == Peek(ml.txs) IN
            IsEIP155(ml.work.number)
              => IF Protected(tx)
                 THEN ApplyErr(ml.work, tx) = "ok" => ml'.work.txs = Append(ml.work.txs, tx)
                 ELSE /\ ml'.work = ml.work
                      /\ ml'.txs = [ml.txs EXCEPT ![tx.from] = <<>>]]_vars

\* C31: a replay-protected transaction is skipped (its sender popped, nothing
\* executed) when EIP155 is not yet active at the header's number; every
\* other transaction is executed: an unprotected one on any block, a
\* protected one once EIP155 is active.
C31_ProtectedSkippedBeforeFork ==
    [][IterStep
         => LET tx == Peek(ml.txs) IN
            IF Protected(tx) /\ ~IsEIP155(ml.work.number)
            THEN /\ ml'.work = ml.work
                 /\ ml'.txs = [ml.txs EXCEPT ![tx.from] = <<>>]
            ELSE /\ ApplyErr(ml.work, tx) = "ok" => ml'.work.txs = Append(ml.work.txs, tx)
                 /\ ml'.txs = iterTxs(ml.work, ml.txs)]_vars

\* On a block before the fork A's protected transaction, executable by its
\* nonce, and the unprotected one behind it were left out; B's unprotected
\* transaction was applied.
C31_Witness ==
    /\ BatchDone
    /\ ~IsEIP155(current.number)
    /\ Len(pool["A"]) = 2
    /\ Protected(pool["A"][1])
    /\ ~Protected(pool["A"][2])
    /\ pool["A"][1].nonce = current.state["A"]
    /\ TxsOf(ml.work, "A") = <<>>
    /\ Len(TxsOf(ml.work, "B")) = 1
    /\ ~Protected(pool["B"][1])

\* ------------------------------------------------ interval feedback (C32)
\* C32: every adjust{inc:true} message carries a ratio in [0.1, 1], and the
\* resubmit loop, applying it, never decreases recommit and leaves it at
\* most maxRecommitInterval.
C32_IncreaseNeverDecreases ==
    /\ [](\A i \in 1..Len(resubmitAdjustCh) :
            resubmitAdjustCh[i].inc
              => /\ resubmitAdjustCh[i].n * minRatioDen >= resubmitAdjustCh[i].d
                 /\ resubmitAdjustCh[i].n <= resubmitAdjustCh[i].d)
    /\ [][(newWorkLoop_adjust /\ Head(resubmitAdjustCh).inc)
            => /\ nw'.recommit >= nw.recommit
               /\ nw'.recommit <= maxRecommitInterval]_vars

\* ------------------------------------------------------------ SpecConfig
\* A worker with an empty pool, with or without a coinbase and an initial
\* start token, that is started while the etherbase is set.
InitConfig ==
    InitWith({maxRecommitInterval}, {EmptyTxs}, {0, 1}, BOOLEAN, {{}}, {0}, MaxConfigEvents)

NextConfig ==
    \/ start
    \/ setEtherbase
    \/ setEtherbase_write
    \/ newWorkLoop_start
    \/ newWorkCh_send
    \/ commitWork_prepare
    \/ commitWork_rlock
    \/ commit_assemble
    \/ taskCh_send
    \/ taskLoop_insert

SpecConfig == InitConfig /\ [][NextConfig]_vars

\* ---------------------------------------------------- config mutex (C33)
\* C33: the coinbase is read only under the read lock of the config mutex:
\* commitWork never reads it while a setter holds the write lock.
C33_ReadsUnderLock ==
    [][commitWork_prepare => cl.mu = "free"]_vars

\* --------------------------------------------- tasks and the running flag (C34)
\* C34 as stated: while the worker is stopped the pending-tasks table
\* receives no new entry.
C34_NoEntryWhileStopped ==
    [][~running => pendingTasks' \subseteq pendingTasks]_vars

\* C34: a task is made only by a commit that found the running flag set; a
\* commit that finds it unset sends nothing to the task loop and publishes
\* the snapshot of its environment; the table only ever receives the task
\* the task loop holds, and a worker that no commit has found running has
\* an empty table. (A task made before stop() can still arrive after it.)
C34_TaskOnlyIfRunning ==
    /\ [][(ml'.pc = "sendTask" /\ ml.pc # "sendTask") => running]_vars
    /\ [][(commit_assemble /\ ~running)
            => /\ ml'.pc = "idle"
               /\ tl' = tl
               /\ pendingTasks' = pendingTasks
               /\ snapshot' = updateSnapshot(copy(ml.work))
               /\ snapshot'.valid
               /\ snapshot'.number = ml.work.number]_vars
    /\ [][pendingTasks' \subseteq pendingTasks \cup {tl.task}]_vars
    /\ []((tl.got = 0 /\ ml.pc # "sendTask") => pendingTasks = {})

\* A round has run to its end on a worker that is not running: the snapshot
\* of its environment is published and no task was ever made.
C34_Witness ==
    /\ ~running
    /\ ml.pc = "idle"
    /\ Len(cells) >= 1
    /\ current.id # 0
    /\ snapshot.valid
    /\ snapshot.number = current.number
    /\ tl.got = 0
    /\ pendingTasks = {}

\* ------------------------------------------- snapshot and current (C35)
\* C35: whenever the main loop waits in its select and a current
\* environment exists, the published snapshot is that of the current
\* environment: same number and parent, same number of transactions, same
\* uncles.
C35_SnapshotIsCurrent ==
    (ml.pc = "idle" /\ current.id # 0)
       => /\ snapshot.valid
          /\ snapshot.number = current.number
          /\ snapshot.parentHash = current.parentHash
          /\ Len(snapshot.txs) = Len(current.txs)
          /\ snapshot.uncles = updateSnapshot(current).uncles

\* ------------------------------------------------------------ SpecDecrease
\* The resubmit loop fed with adjust{inc:false} only, from any minimum
\* interval and any current interval between it and maxRecommitInterval
\* (the ends, their neighbours, the values around the bias, some between).
DecreaseMins == {minRecommitInterval, 3000, maxRecommitInterval}

DecreaseStarts(m) ==
    {r \in {m, m + 1, m + 19, m + 20, m + 21, m + 200, 5000, 10000,
            maxRecommitInterval - 1, maxRecommitInterval} :
        m <= r /\ r <= maxRecommitInterval}

InitDecrease ==
    /\ running = FALSE
    /\ exitClosed = FALSE
    /\ coinbase = TRUE
    /\ faulty = {}
    /\ startCh = 0
    /\ head = 0
    /\ included = {}
    /\ chainHeadCh = <<>>
    /\ chainSideCh = <<>>
    /\ txsCh = <<>>
    /\ pool = EmptyTxs
    /\ \E m \in DecreaseMins : \E r \in DecreaseStarts(m) :
          nw = [pc |-> "idle", interrupt |-> 0, noempty |-> FALSE,
                recommit |-> r, minRecommit |-> m,
                timer |-> "off", pruned |-> FALSE, init |-> 0, config |-> m]
    /\ cells = <<>>
    /\ newTxs = 0
    /\ resubmitAdjustCh = <<>>
    /\ ml = MlIdle
    /\ current = NilEnv
    /\ snapshot = NoSnapshot
    /\ localUncles = {}
    /\ remoteUncles = {}
    /\ tl = [pc |-> "idle", task |-> NoTask, stopCh |-> 0, open |-> {},
             closedTwice |-> FALSE, got |-> 0]
    /\ pendingTasks = {}
    /\ prefetch = {}
    /\ cl = [start |-> "idle", close |-> "idle", gen |-> "idle", req |-> workParams,
             reply |-> NoReply, ret |-> NoReply, gph |-> "idle", hdr |-> NoReply,
             pend |-> NoPending, mu |-> "free", arg |-> TRUE]
    /\ budget = MaxDecreaseEvents

\* A batch that ended without a signal reports adjust{inc:false}.
FeedbackDecrease ==
    /\ budget > 0
    /\ budget' = budget - 1
    /\ resubmitAdjustCh = <<>>
    /\ resubmitAdjustCh' = <<[n |-> 1, d |-> 1, inc |-> FALSE]>>
    /\ UNCHANGED <<flagVars, startCh, chainVars, sideVars, poolVars, nw, cells, newTxs,
                   ml, envVars, taskVars, cl>>

NextDecrease ==
    \/ FeedbackDecrease
    \/ newWorkLoop_adjust

SpecDecrease == InitDecrease /\ [][NextDecrease]_vars

\* ------------------------------------------------ interval decrease (C36)
\* C36: from any recommit between minRecommit and maxRecommitInterval an
\* adjust{inc:false} never increases recommit, lowers it while it is above
\* minRecommit, never takes it below and leaves it there once reached; after
\* MaxDecreaseEvents such feedbacks recommit is exactly minRecommit.
C36_DecreaseReachesMin ==
    /\ [][(newWorkLoop_adjust /\ ~Head(resubmitAdjustCh).inc)
            => /\ nw'.recommit <= nw.recommit
               /\ nw'.recommit >= nw.minRecommit
               /\ nw.recommit > nw.minRecommit => nw'.recommit < nw.recommit
               /\ nw.recommit = nw.minRecommit => nw'.recommit = nw.minRecommit]_vars
    /\ []((budget = 0 /\ resubmitAdjustCh = <<>>) => nw.recommit = nw.minRecommit)

\* More than thirty decreases have been applied and recommit is within the
\* last step of a minimum it has not reached yet.
C36_Witness ==
    /\ budget <= MaxDecreaseEvents - 35
    /\ resubmitAdjustCh = <<>>
    /\ nw.recommit > nw.minRecommit
    /\ nw.recommit <= nw.minRecommit + 20

====
